---- MODULE Spec2Model ----
(***************************************************************************)
(* A model of the Ajv orchestrator (src/unnamed/part_000): the schema      *)
(* registry (schemas, refs, cache, SchemaEnv objects and their compiled    *)
(* validators), the RULES keyword registry and the compileAsync loop.      *)
(*                                                                         *)
(* Strings that the code takes apart (keys, ids, refs) are sequences of    *)
(* tokens: "a#" is <<"a", "#">>, the empty string and an absent value are  *)
(* <<>>.  Objects with identity (SchemaEnv, validator functions) are       *)
(* numbered in allocation order.                                           *)
(***************************************************************************)
EXTENDS Integers, Sequences, FiniteSets, TLC

VARIABLES
    opts,         \* this.opts: the data-affecting options the instance was built with
    schemas,      \* this.schemas: key -> SchemaEnv
    refs,         \* this.refs: ref -> SchemaEnv | alias string
    cache,        \* this._cache: cacheKey -> SchemaEnv
    envs,         \* the SchemaEnv objects, by identity
    nfn,          \* number of validator functions created so far
    errors,       \* this.errors: undefined, null or errors; the list itself where
                  \* errorsText reads it
    defaultMeta,  \* this.opts.defaultMeta
    nops,         \* number of public operations applied so far
    last,         \* the last public operation, its arguments and its outcome
    compiled,     \* cacheKey -> validator returned by a successful compile since the last removeSchema
    RULES,        \* this.RULES: [keywords, all, rules]
    lastKw,       \* the last keyword operation and its outcome
    promises,     \* the promises created so far: state, value, error and reactions
    cos,          \* the activations of the async functions of compileAsync
    queue,        \* the microtask queue
    _loading,     \* this._loading: ref -> promise returned by loadSchema
    loads,        \* the loadSchema calls made so far, in order
    calls,        \* the compileAsync calls made so far, in order
    reqs,         \* the _loadSchema calls made so far, in order
    loader,       \* this.opts.loadSchema: the documents it can deliver for a ref
    applied       \* a function of the library, its arguments and, once called, its result

regVars == <<opts, schemas, refs, cache, envs, nfn, errors, defaultMeta, nops, last, compiled>>

ruleVars == <<RULES, lastKw>>

asyncVars == <<promises, cos, queue, _loading, loads, calls, reqs, loader>>

pureVars == <<applied>>

vars == <<regVars, ruleVars, asyncVars, pureVars>>

-----------------------------------------------------------------------------
(* Bounds of the model *)

\* public operations applied to an instance after construction
MaxOps == 3

\* compileAsync calls made on an instance
MaxCalls == 2

\* errors in a list passed to errorsText
MaxErrors == 3

\* type names in the type list of a schema
MaxTypes == 2

\* loadSchema calls made by an instance
MaxLoads == 3

\* properties declared by the value of a properties keyword
MaxProps == 2

-----------------------------------------------------------------------------
(* Strings *)

EndsWith(s, t) == Len(s) >= Len(t) /\ SubSeq(s, Len(s) - Len(t) + 1, Len(s)) = t

\* compile/resolve normalizeId: id ? id.replace(/#\/?$/, "") : ""
normalizeId(id) ==
    IF EndsWith(id, <<"#", "/">>) THEN SubSeq(id, 1, Len(id) - 2)
    ELSE IF EndsWith(id, <<"#">>) THEN SubSeq(id, 1, Len(id) - 1)
    ELSE id

startsWithHash(id) == Len(id) > 0 /\ id[1] = "#"

META_SCHEMA_ID == <<"http://json-schema.org/draft-07/schema">>

\* the alias key installed by addDefaultMetaSchema
META_ALIAS == <<"http://json-schema.org/schema">>

META_IGNORE_OPTIONS == {"removeAdditional", "useDefaults", "coerceTypes"}

-----------------------------------------------------------------------------
(* Maps with a dynamic domain (JS objects used as dictionaries) *)

Has(f, k) == k \in DOMAIN f

Del(f, k) == [x \in DOMAIN f \ {k} |-> f[x]]

Put(f, k, v) == [x \in DOMAIN f \cup {k} |-> IF x = k THEN v ELSE f[x]]

EmptyMap == [x \in {} |-> 0]

-----------------------------------------------------------------------------
(* Schema documents.  id is $id, meta is $schema, ref is $ref, type holds  *)
(* the keywords type and nullable, body stands for the rest of the         *)
(* document and ord for the order in which the object lists its keys.      *)

\* the keywords {type, nullable} of a schema: type is a type name or a list
\* of type names (none: the schema has no type), nullable is "true",
\* "false" or "undefined"
TypeSchema(list, names, nullable) == [list |-> list, names |-> names, nullable |-> nullable]

\* a schema without type and nullable
NoType == TypeSchema(FALSE, <<>>, "undefined")

\* the types a schema checks: the listed ones, and "null" with nullable: true
getSchemaTypes(schema) ==
    LET types == {schema.names[i] : i \in 1..Len(schema.names)}
    IN  IF "null" \in types
        THEN IF schema.nullable = "false"
             THEN [err |-> "type: null contradicts nullable: false", types |-> {}]
             ELSE [err |-> "", types |-> types]
        ELSE [err |-> "", types |-> IF schema.nullable = "true" THEN types \cup {"null"} ELSE types]

Doc(id, meta, ref, body, ord) ==
    [id |-> id, meta |-> meta, ref |-> ref, body |-> body, ord |-> ord, type |-> NoType]

\* the schema document {type, nullable}
TypeDoc(schema) == [Doc(<<>>, <<>>, <<>>, "", 0) EXCEPT !.type = schema]

NoDoc == Doc(<<>>, <<>>, <<>>, "", 0)

\* opts.serialize, fast-json-stable-stringify: keys are sorted, so the order
\* in which the object lists them does not reach the cache key
serialize(s) == <<s.id, s.meta, s.ref, s.body, s.type>>

\* draft-07 meta-schema document
draft7MetaSchema == Doc(META_SCHEMA_ID \o <<"#">>, META_SCHEMA_ID \o <<"#">>, <<>>, "draft7", 0)

\* the outcome of running the draft-07 validator over a schema document
MetaValid(doc) == doc.body # "bad"

-----------------------------------------------------------------------------
(* Values of this.refs: a SchemaEnv or a string naming another key *)

Direct(e) == [t |-> "env", e |-> e, to |-> <<>>]

Alias(k) == [t |-> "alias", e |-> 0, to |-> k]

Undefined == [t |-> "undef", e |-> 0, to |-> <<>>]

\* new SchemaEnv({schema, cacheKey, meta, localRefs})
SchemaEnv(schema, cacheKey, meta) ==
    [schema |-> schema, cacheKey |-> cacheKey, baseId |-> normalizeId(schema.id),
     meta |-> meta, validate |-> 0, vopts |-> {}]

\* The instance state the operations below transform
State ==
    [schemas |-> schemas, refs |-> refs, cache |-> cache, envs |-> envs,
     nfn |-> nfn, errors |-> errors, defaultMeta |-> defaultMeta, opts |-> opts]

\* An operation's outcome: the state it leaves, the error it threw ("" for
\* none) and what it returned
Ret(st, v) == [st |-> st, err |-> "", ret |-> v, missing |-> <<>>]

Throw(st, e) == [st |-> st, err |-> e, ret |-> 0, missing |-> <<>>]

ThrowMissing(st, ref) == [st |-> st, err |-> "MissingRefError", ret |-> 0, missing |-> ref]

\* the statements after a call: they run on its outcome r unless it threw,
\* and then the error propagates to the caller
Then(r, Rest(_)) == IF r.err # "" THEN r ELSE Rest(r)

\* getMetaSchemaOptions: the options without META_IGNORE_OPTIONS
getMetaSchemaOptions(o) == o \ META_IGNORE_OPTIONS

_metaOpts == getMetaSchemaOptions(opts)

-----------------------------------------------------------------------------
(* Lookup *)

\* getSchEnv: this.schemas[keyRef] || this.refs[keyRef], keyRef normalized
getSchEnv(st, keyRef) ==
    LET k == normalizeId(keyRef)
    IN  IF Has(st.schemas, k) THEN Direct(st.schemas[k])
        ELSE IF Has(st.refs, k) THEN st.refs[k]
        ELSE Undefined

\* the part of a ref before its fragment
UriOf(ref) ==
    LET hs == {i \in 1..Len(ref) : ref[i] = "#"}
    IN  IF hs = {} THEN ref
        ELSE SubSeq(ref, 1, (CHOOSE i \in hs : \A j \in hs : i <= j) - 1)

\* compile resolve: refs (following aliases), then schemas
RECURSIVE resolve(_, _)
resolve(st, ref) ==
    IF Has(st.refs, ref)
    THEN IF st.refs[ref].t = "alias" THEN resolve(st, st.refs[ref].to)
         ELSE st.refs[ref].e
    ELSE IF Has(st.schemas, ref) THEN st.schemas[ref]
    ELSE 0

\* resolveSchema from an empty root: the registered schema the URI of the
\* ref names, 0 when there is none
resolveSchema(st, ref) == resolve(st, normalizeId(UriOf(ref)))

\* _checkUnique: TRUE when it throws
_checkUnique(st, id) == Has(st.schemas, id) \/ Has(st.refs, id)

-----------------------------------------------------------------------------
(* Compilation *)

\* the validator function compileSchema builds for env e under options o
NewValidate(st, e, o) ==
    [st EXCEPT !.nfn = st.nfn + 1,
               !.envs = [st.envs EXCEPT ![e].validate = st.nfn + 1, ![e].vopts = o]]

\* the JSON Pointer of a ref: what follows its "#"
FragOf(ref) == SubSeq(ref, Len(UriOf(ref)) + 2, Len(ref))

\* whether walking the JSON Pointer frag from the root of doc ends at a
\* subschema: the empty pointer is the root, and a document whose body is
\* "/x" has a subschema at /x
HasPointer(doc, frag) == frag = <<>> \/ frag = <<doc.body>>

\* compileSchema: the validator is built under this.opts; a type that
\* lists "null" with nullable: false throws; a $ref must resolve to a
\* subschema of a registered schema, which is compiled first when it has no
\* validator yet; otherwise MissingRefError with missingSchema the URI of
\* the ref
RECURSIVE compileSchema(_, _)
compileSchema(st, e) ==
    LET env == st.envs[e]
        ref == env.schema.ref
        target == resolve(st, normalizeId(UriOf(ref)))
    IN  IF getSchemaTypes(env.schema.type).err # ""
        THEN Throw(st, getSchemaTypes(env.schema.type).err)
        ELSE IF ref = <<>> THEN Ret(NewValidate(st, e, st.opts), e)
        ELSE IF target = 0 THEN ThrowMissing(st, normalizeId(UriOf(ref)))
        ELSE IF ~HasPointer(st.envs[target].schema, FragOf(ref))
        THEN ThrowMissing(st, normalizeId(UriOf(ref)))
        ELSE IF target = e \/ st.envs[target].validate # 0
             THEN Ret(NewValidate(st, e, st.opts), e)
        ELSE LET r == compileSchema(st, target)
             IN  IF r.err # "" THEN r
                 ELSE Ret(NewValidate(r.st, e, r.st.opts), e)

\* _compileMetaSchema without the finally: this.opts is restored only when
\* compileSchema returns
_compileMetaSchemaNoFinally(st, e) ==
    LET currentOpts == st.opts
        r == compileSchema([st EXCEPT !.opts = _metaOpts], e)
    IN  IF r.err # "" THEN r ELSE [r EXCEPT !.st.opts = currentOpts]

\* _compileMetaSchema: this.opts is this._metaOpts while compileSchema runs,
\* and the finally block puts currentOpts back whether it returned or threw
_compileMetaSchema(st, e) ==
    LET currentOpts == st.opts
        r == compileSchema([st EXCEPT !.opts = _metaOpts], e)
    IN  [r EXCEPT !.st.opts = currentOpts]
\* _compileSchemaEnv: returns sch.validate
_compileSchemaEnv(st, e) ==
    Then(IF st.envs[e].meta THEN _compileMetaSchema(st, e) ELSE compileSchema(st, e),
         LAMBDA r : IF r.st.envs[e].validate = 0 THEN Throw(r.st, "ajv implementation error")
                    ELSE Ret(r.st, r.st.envs[e].validate))

\* a compile that does not reuse sch.validate
AlwaysCompile(st, e) == _compileSchemaEnv(st, e)

\* sch.validate || this._compileSchemaEnv(sch)
ValidateOrCompile(st, e) ==
    IF st.envs[e].validate # 0 THEN Ret(st, st.envs[e].validate)
    ELSE _compileSchemaEnv(st, e)

\* getSchema: ret is the validator, 0 for undefined
RECURSIVE getSchema(_, _)
getSchema(st, keyRef) ==
    LET sch == getSchEnv(st, keyRef)
    IN  IF sch.t = "alias" THEN getSchema(st, sch.to)
        ELSE IF sch.t = "undef"
        THEN LET found == resolveSchema(st, keyRef)
             IN  IF found = 0 THEN Ret(st, 0)
                 ELSE ValidateOrCompile([st EXCEPT !.refs = Put(st.refs, keyRef, Direct(found))], found)
        ELSE ValidateOrCompile(st, sch.e)

-----------------------------------------------------------------------------
(* Validation *)

\* v(data): the draft-07 validator rejects the documents that are not valid
\* schemas, the validator of a schema with a type accepts the values of the
\* types it checks; the other validators of the model accept every document
RunValidate(st, fn, data) ==
    LET e == CHOOSE x \in 1..Len(st.envs) : st.envs[x].validate = fn
    IN  IF st.envs[e].schema.body = "draft7" THEN MetaValid(data)
        ELSE IF st.envs[e].schema.type # NoType
        THEN data.t \in getSchemaTypes(st.envs[e].schema.type).types
        ELSE TRUE

\* v.$async === true: the schema of the validator has $async: true
IsAsync(st, fn) ==
    \E x \in 1..Len(st.envs) : st.envs[x].validate = fn /\ st.envs[x].schema.body = "async"

\* v.errors after v(data)
ErrorsOf(st, fn, data) == IF RunValidate(st, fn, data) THEN "null" ELSE "errors"

\* validate from const valid = v(data) on, v the validator g.ret: ret is the
\* boolean result, TRUE for the promise of an asynchronous validator
validateRun(g, data) ==
    IF IsAsync(g.st, g.ret) THEN Ret(g.st, TRUE)
    ELSE Ret([g.st EXCEPT !.errors = ErrorsOf(g.st, g.ret, data)],
             RunValidate(g.st, g.ret, data))

\* validate(schemaKeyRef, data) with a string key
validate(st, schemaKeyRef, data) ==
    Then(getSchema(st, schemaKeyRef),
         LAMBDA g :
            IF g.ret = 0 THEN Throw(g.st, "no schema with key or ref")
            ELSE validateRun(g, data))

\* defaultMeta(): sets and returns this.opts.defaultMeta (opts.meta is not set)
defaultMetaOf(st) ==
    Then(getSchema(st, META_SCHEMA_ID),
         LAMBDA g :
            Ret([g.st EXCEPT !.defaultMeta = IF g.ret # 0 THEN META_SCHEMA_ID ELSE <<>>],
                IF g.ret # 0 THEN META_SCHEMA_ID ELSE <<>>))

\* validateSchema(schema, throwOrLogError)
validateSchema(st, schema, throwOrLogError) ==
    Then(IF schema.meta # <<>> THEN Ret(st, schema.meta)
         ELSE IF st.defaultMeta # <<>> THEN Ret(st, st.defaultMeta)
         ELSE defaultMetaOf(st),
         LAMBDA d :
            IF d.ret = <<>> THEN Ret([d.st EXCEPT !.errors = "null"], TRUE)
            ELSE Then(validate(d.st, d.ret, schema),
                      LAMBDA v : IF ~v.ret /\ throwOrLogError
                                 THEN Throw(v.st, "schema is invalid")
                                 ELSE v))

-----------------------------------------------------------------------------
(* Registration *)

\* _addSchema(schema, meta, validateSchema, addSchema): ret is the SchemaEnv
_addSchema(st, schema, meta, validateSchemaArg, addSchemaArg) ==
    LET cacheKey == serialize(schema)
        e == Len(st.envs) + 1
        sch == SchemaEnv(schema, cacheKey, meta)
        st1 == [st EXCEPT !.envs = Append(st.envs, sch),
                          !.cache = Put(st.cache, cacheKey, e)]
        id == sch.baseId
        reg == addSchemaArg /\ ~startsWithHash(id)
        st2 == IF reg THEN [st1 EXCEPT !.refs = Put(st1.refs, id, Direct(e))] ELSE st1
    IN  IF Has(st.cache, cacheKey) THEN Ret(st, st.cache[cacheKey])
        ELSE IF reg /\ id # <<>> /\ _checkUnique(st1, id) THEN Throw(st1, "already exists")
        ELSE IF validateSchemaArg
        THEN Then(validateSchema(st2, schema, TRUE), LAMBDA v : Ret(v.st, e))
        ELSE Ret(st2, e)

\* an addSchema that does not check its key with _checkUnique
addSchemaNoKeyCheck(st, schema, key, meta, validateSchemaArg) ==
    LET k == normalizeId(IF key # <<>> THEN key ELSE schema.id)
    IN  Then(_addSchema(st, schema, meta, validateSchemaArg, TRUE),
             LAMBDA r : Ret([r.st EXCEPT !.schemas = Put(r.st.schemas, k, r.ret)], r.ret))

\* addSchema(schema, key, _meta, _validateSchema) for a single schema
addSchema(st, schema, key, meta, validateSchemaArg) ==
    LET k == normalizeId(IF key # <<>> THEN key ELSE schema.id)
    IN  IF _checkUnique(st, k) THEN Throw(st, "already exists")
        ELSE Then(_addSchema(st, schema, meta, validateSchemaArg, TRUE),
                  LAMBDA r : Ret([r.st EXCEPT !.schemas = Put(r.st.schemas, k, r.ret)], r.ret))

\* addMetaSchema(schema, key, _validateSchema)
addMetaSchema(st, schema, key, validateSchemaArg) ==
    addSchema(st, schema, key, TRUE, validateSchemaArg)

\* compile(schema, _meta): opts.validateSchema and opts.addUsedSchema have
\* their defaults (true)
compile(st, schema, meta) ==
    Then(_addSchema(st, schema, meta, TRUE, TRUE), LAMBDA a : ValidateOrCompile(a.st, a.ret))

\* validate(schemaKeyRef, data) with a schema object
validateObject(st, schema, data) ==
    Then(_addSchema(st, schema, FALSE, TRUE, TRUE),
         LAMBDA a : Then(ValidateOrCompile(a.st, a.ret), LAMBDA g : validateRun(g, data)))

-----------------------------------------------------------------------------
(* Removal *)

\* a RegExp is modelled by the first token it requires of a key
RegExpTest(regex, keyRef) == Len(keyRef) > 0 /\ keyRef[1] = regex

\* _removeAllSchemas over this.schemas (values are SchemaEnvs)
_removeAllSchemasS(st, useRegex, regex) ==
    LET gone == {k \in DOMAIN st.schemas :
                    (~useRegex \/ RegExpTest(regex, k)) /\ ~st.envs[st.schemas[k]].meta}
        keys == {st.envs[st.schemas[k]].cacheKey : k \in gone}
    IN  [st EXCEPT !.schemas = [k \in DOMAIN st.schemas \ gone |-> st.schemas[k]],
                   !.cache = [c \in DOMAIN st.cache \ keys |-> st.cache[c]]]

\* _removeAllSchemas over this.refs (values are SchemaEnvs or strings)
_removeAllSchemasR(st, useRegex, regex) ==
    LET gone == {k \in DOMAIN st.refs :
                    (~useRegex \/ RegExpTest(regex, k))
                    /\ (st.refs[k].t = "alias" \/ ~st.envs[st.refs[k].e].meta)}
        keys == {st.envs[st.refs[k].e].cacheKey : k \in {x \in gone : st.refs[x].t = "env"}}
    IN  [st EXCEPT !.refs = [k \in DOMAIN st.refs \ gone |-> st.refs[k]],
                   !.cache = [c \in DOMAIN st.cache \ keys |-> st.cache[c]]]

\* removeSchema(RegExp)
removeSchemaRegExp(st, regex) ==
    _removeAllSchemasR(_removeAllSchemasS(st, TRUE, regex), TRUE, regex)

\* removeSchema()
removeSchemaAll(st) ==
    [_removeAllSchemasR(_removeAllSchemasS(st, FALSE, ""), FALSE, "") EXCEPT !.cache = EmptyMap]

\* removeSchema(string)
removeSchemaKey(st, schemaKeyRef) ==
    LET sch == getSchEnv(st, schemaKeyRef)
        st1 == IF sch.t = "env"
               THEN [st EXCEPT !.cache = Del(st.cache, st.envs[sch.e].cacheKey)]
               ELSE st
    IN  [st1 EXCEPT !.schemas = Del(st1.schemas, schemaKeyRef),
                    !.refs = Del(st1.refs, schemaKeyRef)]

\* removeSchema(object)
removeSchemaObj(st, schema) ==
    LET st1 == [st EXCEPT !.cache = Del(st.cache, serialize(schema))]
        id == normalizeId(schema.id)
    IN  IF schema.id # <<>>
        THEN [st1 EXCEPT !.schemas = Del(st1.schemas, id), !.refs = Del(st1.refs, id)]
        ELSE st1

-----------------------------------------------------------------------------
(* The registry specification: the public synchronous operations applied   *)
(* to an instance in any order.                                            *)

\* option sets an instance is built with: the options getMetaSchemaOptions drops
\* are set, so that a validator compiled as a schema and one compiled as a
\* meta-schema differ
OptionSets == {{"allErrors", "useDefaults", "coerceTypes"}}

\* schema documents the caller passes
DocP == Doc(<<>>, <<>>, <<>>, "p", 0)

DocA == Doc(<<"a", "#">>, <<>>, <<>>, "q", 0)

DocA2 == Doc(<<"a", "#">>, <<>>, <<>>, "q", 1)

DocBad == Doc(<<"b">>, <<>>, <<>>, "bad", 0)

DocRef == Doc(<<>>, <<>>, <<"a", "#">>, "r", 0)

UserDocs == {DocP, DocA, DocA2, DocBad, DocRef}

\* keys passed to addSchema (<<>>: no key)
AddKeys == {<<>>, <<"k">>}

\* keys and refs passed to getSchema and removeSchema
LookupKeys == {<<"a">>, <<"a", "#">>, <<"k">>, META_SCHEMA_ID, META_ALIAS}

\* regular expressions passed to removeSchema
RegExps == {"k", "http://json-schema.org/schema"}

\* the instance a constructor with default meta-schema handling leaves:
\* addDefaultMetaSchema has added draft-07 without validating it and the alias
ConstructedState ==
    LET empty == [schemas |-> EmptyMap, refs |-> EmptyMap, cache |-> EmptyMap,
                  envs |-> <<>>, nfn |-> 0, errors |-> "undefined", defaultMeta |-> <<>>,
                  opts |-> opts]
    IN  Then(addMetaSchema(empty, draft7MetaSchema, META_SCHEMA_ID, FALSE),
             LAMBDA r : [r.st EXCEPT !.refs = Put(r.st.refs, META_ALIAS, Alias(META_SCHEMA_ID))])

NoPrev == [ok |-> FALSE, key |-> <<>>, env |-> 0]

NoLast ==
    [op |-> "new", doc |-> NoDoc, key |-> <<>>, meta |-> FALSE, err |-> "", ret |-> 0,
     again |-> FALSE, prev |-> NoPrev, fresh |-> FALSE, metaBefore |-> {},
     async |-> FALSE, errorsBefore |-> "", verrors |-> "",
     unchanged |-> TRUE, undone |-> NoDoc, redo |-> FALSE, valid |-> FALSE]

\* the instance after construction, its errors field being thisErrors
InitInstance(thisErrors) ==
    /\ opts \in OptionSets
    /\ \E st \in {ConstructedState} :
          /\ schemas = st.schemas
          /\ refs = st.refs
          /\ cache = st.cache
          /\ envs = st.envs
          /\ nfn = st.nfn
          /\ errors = thisErrors
          /\ defaultMeta = st.defaultMeta
    /\ nops = 0
    /\ last = NoLast
    /\ compiled = EmptyMap

\* the constructor leaves this.errors undefined
InitRegistry == InitInstance("undefined")

\* the operation leaves state st behind
Commit(st) ==
    /\ nops < MaxOps
    /\ nops' = nops + 1
    /\ schemas' = st.schemas
    /\ refs' = st.refs
    /\ cache' = st.cache
    /\ envs' = st.envs
    /\ nfn' = st.nfn
    /\ errors' = st.errors
    /\ defaultMeta' = st.defaultMeta
    /\ opts' = st.opts
    /\ UNCHANGED <<ruleVars, asyncVars, pureVars>>

\* what the previous operation tells about this addSchema(doc): whether it
\* was a successful addSchema of a document with the same serialization
PrevAdd(doc) ==
    IF last.op \in {"addSchema", "addMetaSchema"} /\ last.err = ""
       /\ serialize(last.doc) = serialize(doc)
    THEN [ok |-> TRUE, key |-> last.key, env |-> last.ret]
    ELSE NoPrev

\* whether the key an addSchema(doc, key) registers under is free before the call
FreshKey(doc, key) == ~_checkUnique(State, normalizeId(IF key # <<>> THEN key ELSE doc.id))

\* whether state st holds in schemas, refs and the cache what the instance holds
Unchanged(st) == st.schemas = schemas /\ st.refs = refs /\ st.cache = cache

\* the schema whose addSchema(schema, keyRef), the previous operation, a
\* removeSchema(keyRef) follows
Undone(keyRef) ==
    IF last.op = "addSchema" /\ last.err = "" /\ last.key = keyRef THEN last.doc ELSE NoDoc

\* whether addSchema(doc, key) follows the removeSchema(key) that followed
\* addSchema(doc, key)
Redo(doc, key) == last.op = "removeSchema(string)" /\ last.key = key /\ last.undone = doc

\* the SchemaEnv whose validator is function fn
EnvOfFn(st, fn) == CHOOSE x \in 1..Len(st.envs) : st.envs[x].validate = fn

\* the keys under which getSchema returns, without changing anything, the
\* validator of a meta-schema; with that validator
MetaLookups(st) ==
    {<<p[1], p[2].ret>> : p \in
        {q \in {<<k, getSchema(st, k)>> : k \in LookupKeys} :
            /\ q[2].err = "" /\ q[2].ret # 0 /\ q[2].st = st
            /\ st.envs[EnvOfFn(st, q[2].ret)].meta}}

AddSchema ==
    \E doc \in UserDocs, key \in AddKeys :
        \E r \in {addSchema(State, doc, key, FALSE, TRUE)} :
            /\ Commit(r.st)
            /\ last' = [NoLast EXCEPT !.op = "addSchema", !.doc = doc, !.key = key,
                                      !.err = r.err, !.ret = r.ret, !.prev = PrevAdd(doc),
                                      !.fresh = FreshKey(doc, key),
                                      !.unchanged = Unchanged(r.st), !.redo = Redo(doc, key)]
            /\ UNCHANGED compiled

AddMetaSchema ==
    \E doc \in UserDocs, key \in AddKeys :
        \E r \in {addMetaSchema(State, doc, key, TRUE)} :
            /\ Commit(r.st)
            /\ last' = [NoLast EXCEPT !.op = "addMetaSchema", !.doc = doc, !.key = key,
                                      !.meta = TRUE, !.err = r.err, !.ret = r.ret,
                                      !.prev = PrevAdd(doc), !.fresh = FreshKey(doc, key)]
            /\ UNCHANGED compiled

Compile ==
    \E doc \in UserDocs, meta \in BOOLEAN :
        \E r \in {compile(State, doc, meta)}, key \in {serialize(doc)} :
            /\ Commit(r.st)
            /\ last' = [NoLast EXCEPT !.op = "compile", !.doc = doc, !.meta = meta,
                                      !.err = r.err, !.ret = r.ret,
                                      !.again = Has(compiled, key)]
            /\ compiled' = IF r.err = "" /\ ~Has(compiled, key)
                           THEN Put(compiled, key, r.ret) ELSE compiled

GetSchema ==
    \E keyRef \in LookupKeys :
        \E r \in {getSchema(State, keyRef)} :
            /\ Commit(r.st)
            /\ last' = [NoLast EXCEPT !.op = "getSchema", !.key = keyRef,
                                      !.err = r.err, !.ret = r.ret]
            /\ UNCHANGED compiled

\* {$async: true}
DocAsync == Doc(<<>>, <<>>, <<>>, "async", 0)

\* schema objects and data passed to validate
ValidateDocs == {DocP, DocAsync}

ValidateData == {DocP, DocBad}

\* the record of a validate call that ended with r, v being the validator g.ret
Validated(r, g, schema, key, data) ==
    [NoLast EXCEPT !.op = "validate", !.doc = schema, !.key = key, !.err = r.err,
                   !.ret = IF r.err = "" THEN g.ret ELSE 0,
                   !.errorsBefore = errors,
                   !.async = r.err = "" /\ IsAsync(r.st, g.ret),
                   !.verrors = IF r.err = "" THEN ErrorsOf(r.st, g.ret, data) ELSE ""]

ValidateKey ==
    \E schemaKeyRef \in {META_SCHEMA_ID, <<"k">>}, data \in ValidateData :
        \E r \in {validate(State, schemaKeyRef, data)}, g \in {getSchema(State, schemaKeyRef)} :
            /\ Commit(r.st)
            /\ last' = Validated(r, g, NoDoc, schemaKeyRef, data)
            /\ UNCHANGED compiled

ValidateObject ==
    \E schema \in ValidateDocs, data \in ValidateData :
        \E r \in {validateObject(State, schema, data)}, g \in {compile(State, schema, FALSE)} :
            /\ Commit(r.st)
            /\ last' = Validated(r, g, schema, <<>>, data)
            /\ UNCHANGED compiled

\* validateSchema(schema, throwOrLogError) with a schema object
ValidateSchema ==
    \E schema \in UserDocs, throwOrLogError \in BOOLEAN :
        \E r \in {validateSchema(State, schema, throwOrLogError)} :
            /\ Commit(r.st)
            /\ last' = [NoLast EXCEPT !.op = "validateSchema", !.doc = schema, !.err = r.err,
                                      !.valid = r.err = "" /\ r.ret]
            /\ UNCHANGED compiled

RemoveSchemaAll ==
    /\ Commit(removeSchemaAll(State))
    /\ last' = [NoLast EXCEPT !.op = "removeSchema()", !.metaBefore = MetaLookups(State)]
    /\ compiled' = EmptyMap

RemoveSchemaRegExp ==
    \E regex \in RegExps :
        /\ Commit(removeSchemaRegExp(State, regex))
        /\ last' = [NoLast EXCEPT !.op = "removeSchema(RegExp)", !.key = <<regex>>,
                                  !.metaBefore = MetaLookups(State)]
        /\ compiled' = EmptyMap

RemoveSchemaKey ==
    \E keyRef \in LookupKeys :
        /\ Commit(removeSchemaKey(State, keyRef))
        /\ last' = [NoLast EXCEPT !.op = "removeSchema(string)", !.key = keyRef,
                                  !.undone = Undone(keyRef)]
        /\ compiled' = EmptyMap

RemoveSchemaObj ==
    \E doc \in UserDocs :
        /\ Commit(removeSchemaObj(State, doc))
        /\ last' = [NoLast EXCEPT !.op = "removeSchema(object)", !.doc = doc]
        /\ compiled' = EmptyMap

-----------------------------------------------------------------------------
(* The RULES keyword registry.  Keyword names are sequences of characters. *)

Letters ==
    {"a", "b", "c", "d", "e", "f", "g", "h", "i", "j", "k", "l", "m", "n", "o", "p", "q", "r",
     "s", "t", "u", "v", "w", "x", "y", "z"}

Digits == {"0", "1", "2", "3", "4", "5", "6", "7", "8", "9"}

\* KEYWORD_NAME = /^[a-z_$][a-z0-9_$-]*$/i, over the lower-case names of the model
KEYWORD_NAME(kwd) ==
    /\ Len(kwd) > 0
    /\ kwd[1] \in Letters \cup {"_", "$"}
    /\ \A i \in 2..Len(kwd) : kwd[i] \in Letters \cup Digits \cup {"_", "$", "-"}

\* the JSON data types checkType recognizes
JSONTypes == {"number", "integer", "string", "array", "object", "boolean", "null"}

\* the dataType of a definition without type
UndefinedType == "undefined"

\* A KeywordDefinition: keyword is the list of its names, type the list of
\* its types (<<>>: no type), before a keyword name (<<>>: none), implements
\* a list of names, data the $data flag, code whether it has code or validate
Definition(keyword, type, before, implements, data, code) ==
    [keyword |-> keyword, type |-> type, before |-> before, implements |-> implements,
     data |-> data, code |-> code, none |-> FALSE]

\* def === undefined: addKeyword called with a name only
NoDefinition ==
    [keyword |-> <<>>, type |-> <<>>, before |-> <<>>, implements |-> <<>>,
     data |-> FALSE, code |-> FALSE, none |-> TRUE]

\* the entry `true` of RULES.all: no object, it has neither keyword nor
\* definition
TrueEntry == [keyword |-> <<>>, definition |-> NoDefinition]

\* typeof rule == "object": addRule makes a rule only with a definition
IsRule(entry) == ~entry.definition.none

OkR(R) == [R |-> R, err |-> ""]

ThrowR(R, e) == [R |-> R, err |-> e]

\* index of the first element of seq satisfying Test, 0 for -1
FindIndex(seq, Test(_)) ==
    LET hits == {i \in 1..Len(seq) : Test(seq[i])}
    IN  IF hits = {} THEN 0 ELSE CHOOSE i \in hits : \A j \in hits : i <= j

\* array.splice(i, 0, x) at 1-based position i
InsertAt(seq, i, x) == SubSeq(seq, 1, i - 1) \o <<x>> \o SubSeq(seq, i, Len(seq))

\* array.splice(i, 1) at 1-based position i
RemoveAt(seq, i) == SubSeq(seq, 1, i - 1) \o SubSeq(seq, i + 1, Len(seq))

\* eachItem(def?.type, ...): an absent type is one item, undefined
TypesOf(def) == IF def.type = <<>> THEN <<UndefinedType>> ELSE def.type

\* checkKeyword: the error it throws, "" for none
checkKeyword(R, keyword, def) ==
    LET IsBad(kwd) == kwd \in R.keywords \/ ~KEYWORD_NAME(kwd)
        bad == FindIndex(keyword, IsBad)
        IsBadType(t) == t \notin JSONTypes
    IN  IF bad # 0
        THEN IF keyword[bad] \in R.keywords THEN "already defined" ELSE "invalid name"
        ELSE IF def.none THEN ""
        ELSE IF FindIndex(def.type, IsBadType) # 0 THEN "unknown type"
        ELSE IF def.data /\ ~def.code THEN "$data keyword must have code or validate"
        ELSE ""

\* addBeforeRule: the group's rule list with rule placed
addBeforeRule(rules, rule, before) ==
    LET IsBefore(r) == r.keyword = before
        i == FindIndex(rules, IsBefore)
    IN  IF i # 0 THEN InsertAt(rules, i, rule) ELSE Append(rules, rule)

RECURSIVE addKeyword(_, _, _)

\* definition.implements?.forEach((kwd) => this.addKeyword(kwd)), from item i on
RECURSIVE AddImplements(_, _, _)
AddImplements(R, implements, i) ==
    IF i > Len(implements) THEN OkR(R)
    ELSE LET r == addKeyword(R, <<implements[i]>>, NoDefinition)
         IN  IF r.err # "" THEN r ELSE AddImplements(r.R, implements, i + 1)

\* addRule(keyword, dataType, definition)
addRule(R, keyword, dataType, definition) ==
    LET IsType(g) == g.type = dataType
        found == FindIndex(R.rules, IsType)
        R1 == IF found = 0
              THEN [R EXCEPT !.rules = Append(R.rules, [type |-> dataType, rules |-> <<>>])]
              ELSE R
        gi == IF found = 0 THEN Len(R1.rules) ELSE found
        R2 == [R1 EXCEPT !.keywords = R1.keywords \cup {keyword}]
        rule == [keyword |-> keyword, definition |-> definition]
        placed == IF definition.before # <<>>
                  THEN addBeforeRule(R2.rules[gi].rules, rule, definition.before)
                  ELSE Append(R2.rules[gi].rules, rule)
        R3 == [R2 EXCEPT !.rules[gi].rules = placed, !.all = Put(R2.all, keyword, rule)]
    IN  IF definition.none THEN OkR(R2)
        ELSE AddImplements(R3, definition.implements, 1)

\* the eachItem loops of addKeyword: keyword number k, type number t onwards
RECURSIVE AddRules(_, _, _, _, _)
AddRules(R, keyword, def, k, t) ==
    IF k > Len(keyword) THEN OkR(R)
    ELSE IF t > Len(TypesOf(def)) THEN AddRules(R, keyword, def, k + 1, 1)
    ELSE LET r == addRule(R, keyword[k], TypesOf(def)[t], def)
         IN  IF r.err # "" THEN r ELSE AddRules(r.R, keyword, def, k, t + 1)

\* addKeyword(kwdOrDef): keyword is the list of names, def the definition
\* (NoDefinition when called with a name); the definitions of the model have
\* no metaSchema, so keywordMetaschema returns at once
addKeyword(R, keyword, def) ==
    LET e == checkKeyword(R, keyword, def)
    IN  IF e # "" THEN ThrowR(R, e) ELSE AddRules(R, keyword, def, 1, 1)

\* addVocabulary(definitions), from item i on
RECURSIVE addVocabulary(_, _, _)
addVocabulary(R, definitions, i) ==
    IF i > Len(definitions) THEN OkR(R)
    ELSE LET d == definitions[i]
             r == addKeyword(R, d.keyword, d)
         IN  IF r.err # "" THEN r ELSE addVocabulary(r.R, definitions, i + 1)

\* removeKeyword(keyword)
removeKeyword(R, keyword) ==
    LET IsKw(r) == r.keyword = keyword
        Cut(g) == IF FindIndex(g.rules, IsKw) # 0
                  THEN [g EXCEPT !.rules = RemoveAt(g.rules, FindIndex(g.rules, IsKw))]
                  ELSE g
    IN  [R EXCEPT !.keywords = R.keywords \ {keyword},
                  !.all = Del(R.all, keyword),
                  !.rules = [i \in 1..Len(R.rules) |-> Cut(R.rules[i])]]

\* getKeyword(keyword): typeof rule == "object" ? rule.definition : !!rule
getKeyword(R, keyword) ==
    IF Has(R.all, keyword) /\ IsRule(R.all[keyword])
    THEN [definition |-> R.all[keyword].definition, found |-> TRUE]
    ELSE [definition |-> NoDefinition, found |-> Has(R.all, keyword)]

-----------------------------------------------------------------------------
(* The keyword specification: addKeyword, addVocabulary and removeKeyword  *)
(* applied in any order to the RULES of a constructed instance.            *)

KwA == <<"a">>

KwB == <<"b">>

KwC == <<"c">>

KwAsync == <<"$", "a", "s", "y", "n", "c">>

KwProperties == <<"p", "r", "o", "p", "e", "r", "t", "i", "e", "s">>

KwType == <<"t", "y", "p", "e">>

\* a name KEYWORD_NAME rejects
KwBadName == <<"1", "a">>

\* vocabularies/applicator/properties.ts
propertiesDef == Definition(<<KwProperties>>, <<"object">>, <<>>, <<>>, FALSE, TRUE)

\* getRules(): the registry the constructor starts from.  compile/rules is
\* not part of the source at hand, and the specification describes the three
\* indices only; part_000 shows that an entry of RULES.all need not be a rule
\* object (getKeyword, $dataMetaSchema) and that a RuleGroup is made when the
\* first rule of its type is added (addRule).  The registry holds `true` in
\* keywords and in all for the preset keywords and has no RuleGroup yet.
getRules(preset) ==
    [keywords |-> preset, all |-> [k \in preset |-> TrueEntry], rules |-> <<>>]

\* the registries getRules() may return: without preset keywords, and with
\* the keyword `type`, which no vocabulary defines, preset
RulesTables == {getRules(preset) : preset \in {{}, {KwType}}}

\* RULES of a constructed instance: the constructor's addVocabulary calls on
\* the registry getRules() returned; of the built-in vocabularies the source
\* at hand has the keyword `properties`, which stands for them
ConstructedRules(table) ==
    LET r1 == addKeyword(table, <<KwAsync>>, NoDefinition)
    IN  addVocabulary(r1.R, <<propertiesDef>>, 1).R

\* the keyword names callers use
KeywordNames == {KwA, KwB, KwC}

\* the definitions callers pass to addKeyword; the before hints (a before b,
\* b before c) can all be satisfied together; a definition may name a type
\* or a keyword twice
UserDefinitions ==
    {Definition(<<k>>, <<"number">>, <<>>, <<>>, FALSE, TRUE) : k \in KeywordNames}
    \cup {Definition(<<KwA>>, <<"number">>, KwB, <<>>, FALSE, TRUE),
          Definition(<<KwB>>, <<"number">>, KwC, <<>>, FALSE, TRUE),
          Definition(<<KwA>>, <<"number", "string">>, <<>>, <<KwC>>, FALSE, TRUE),
          Definition(<<KwB>>, <<"string", "number">>, <<>>, <<>>, FALSE, TRUE),
          Definition(<<KwC>>, <<>>, <<>>, <<>>, FALSE, TRUE),
          Definition(<<KwA, KwB>>, <<"number">>, <<>>, <<>>, FALSE, TRUE),
          Definition(<<KwA>>, <<"number", "number">>, <<>>, <<>>, FALSE, TRUE),
          Definition(<<KwC, KwC>>, <<"string">>, <<>>, <<>>, FALSE, TRUE),
          Definition(<<KwA>>, <<"foo">>, <<>>, <<>>, FALSE, TRUE),
          Definition(<<KwA>>, <<"number">>, <<>>, <<>>, TRUE, FALSE),
          Definition(<<KwBadName>>, <<"number">>, <<>>, <<>>, FALSE, TRUE)}

\* the vocabularies callers pass to addVocabulary
UserVocabularies ==
    {<<Definition(<<KwA>>, <<"number">>, KwB, <<>>, FALSE, TRUE),
       Definition(<<KwB>>, <<"number">>, <<>>, <<>>, FALSE, TRUE)>>,
     <<Definition(<<KwC>>, <<"string">>, <<>>, <<>>, FALSE, TRUE),
       Definition(<<KwC>>, <<"number">>, <<>>, <<>>, FALSE, TRUE)>>}

\* the rule list of the RuleGroup of dataType, <<>> when there is no such group
RulesOf(R, dataType) ==
    LET IsType(g) == g.type = dataType
        found == FindIndex(R.rules, IsType)
    IN  IF found = 0 THEN <<>> ELSE R.rules[found].rules

\* whether R1 holds in keywords, all and every RuleGroup's rule list what R0 holds
Kept(R0, R1) ==
    /\ R1.keywords = R0.keywords
    /\ R1.all = R0.all
    /\ \A t \in JSONTypes \cup {UndefinedType, "foo"} : RulesOf(R1, t) = RulesOf(R0, t)

\* whether def has several types and an implements list and none of its
\* keywords, nor of those it implements, is defined in R
SeveralFresh(R, def) ==
    /\ Len(def.type) >= 2 /\ Len(def.implements) >= 1
    /\ \A i \in 1..Len(def.keyword) : def.keyword[i] \notin R.keywords
    /\ \A i \in 1..Len(def.implements) : def.implements[i] \notin R.keywords

NoLastKw ==
    [op |-> "new", keyword |-> <<>>, err |-> "", kept |-> TRUE, several |-> FALSE,
     found |-> FALSE]

\* a constructed instance whose RULES no operation reads or changes
InitRules ==
    /\ RULES = ConstructedRules(getRules({}))
    /\ lastKw = NoLastKw

\* a constructed instance, for each registry getRules() may return
InitRulesTables ==
    /\ RULES \in {ConstructedRules(table) : table \in RulesTables}
    /\ lastKw = NoLastKw

\* a keyword operation is one more public operation; it leaves the schema
\* registry alone
KeywordOperation ==
    /\ nops < MaxOps
    /\ nops' = nops + 1
    /\ UNCHANGED <<opts, schemas, refs, cache, envs, nfn, errors, defaultMeta, last, compiled>>

AddKeyword ==
    \E def \in UserDefinitions :
        LET r == addKeyword(RULES, def.keyword, def)
        IN  /\ KeywordOperation
            /\ RULES' = r.R
            /\ lastKw' = [op |-> "addKeyword", keyword |-> def.keyword, err |-> r.err,
                          kept |-> Kept(RULES, r.R), several |-> SeveralFresh(RULES, def),
                          found |-> FALSE]
            /\ UNCHANGED <<asyncVars, pureVars>>

AddKeywordName ==
    \E kwd \in KeywordNames \cup {KwBadName} :
        LET r == addKeyword(RULES, <<kwd>>, NoDefinition)
        IN  /\ KeywordOperation
            /\ RULES' = r.R
            /\ lastKw' = [op |-> "addKeyword", keyword |-> <<kwd>>, err |-> r.err,
                          kept |-> Kept(RULES, r.R), several |-> FALSE,
                          found |-> FALSE]
            /\ UNCHANGED <<asyncVars, pureVars>>

AddVocabulary ==
    \E definitions \in UserVocabularies :
        LET r == addVocabulary(RULES, definitions, 1)
        IN  /\ KeywordOperation
            /\ RULES' = r.R
            /\ lastKw' = [op |-> "addVocabulary", keyword |-> <<>>, err |-> r.err,
                          kept |-> Kept(RULES, r.R), several |-> FALSE,
                          found |-> FALSE]
            /\ UNCHANGED <<asyncVars, pureVars>>

RemoveKeyword ==
    \E kwd \in KeywordNames \cup {KwAsync, KwProperties, KwType} :
        /\ KeywordOperation
        /\ RULES' = removeKeyword(RULES, kwd)
        /\ lastKw' = [NoLastKw EXCEPT !.op = "removeKeyword", !.keyword = <<kwd>>]
        /\ UNCHANGED <<asyncVars, pureVars>>

GetKeyword ==
    \E kwd \in KeywordNames \cup {KwAsync, KwProperties, KwType} :
        /\ KeywordOperation
        /\ lastKw' = [NoLastKw EXCEPT !.op = "getKeyword", !.keyword = <<kwd>>,
                                      !.found = getKeyword(RULES, kwd).found]
        /\ UNCHANGED <<RULES, asyncVars, pureVars>>

-----------------------------------------------------------------------------
(* compileAsync.  Each activation of an async function is a coroutine with *)
(* the promise it returns; it runs until its next await in one step.  A    *)
(* settled promise queues the reactions waiting for it as microtasks,      *)
(* which run in queue order.  loadSchema is the caller's: the promise it   *)
(* returns is settled already, or is settled at a later moment of the      *)
(* caller's choosing.                                                      *)

\* the value of a promise: a validator function, a schema document or undefined
NoVal == [fn |-> 0, doc |-> NoDoc]

FnVal(fn) == [fn |-> fn, doc |-> NoDoc]

DocVal(doc) == [fn |-> 0, doc |-> doc]

\* what opts.loadSchema does when it is called: the state of the promise
\* it returns, and the schema that promise is or will be fulfilled with
LoaderReturns(state, m, a) == [state |-> state, m |-> m, a |-> a]

\* the state the steps of compileAsync transform; ret is the promise the
\* last call returned, returns what opts.loadSchema does when the step
\* calls it
Machine ==
    [st |-> State, promises |-> promises, cos |-> cos, queue |-> queue,
     loading |-> _loading, loads |-> loads, calls |-> calls, reqs |-> reqs, ret |-> 0,
     returns |-> LoaderReturns("pending", NoDoc, NoDoc)]

\* this.<registry> after a registry operation
WithSt(m, st) == [m EXCEPT !.st = st]

NewPromise == [state |-> "pending", val |-> NoVal, err |-> "", waiters |-> <<>>]

\* the jobs promise p queues for its reactions when it is settled
Jobs(waiters, p) ==
    [i \in 1..Len(waiters) |->
        [kind |-> waiters[i].kind, target |-> waiters[i].target, src |-> p]]

\* promise p is settled
SettlePromise(m, p, state, val, err) ==
    [m EXCEPT !.promises[p] = [state |-> state, val |-> val, err |-> err, waiters |-> <<>>],
              !.queue = @ \o Jobs(m.promises[p].waiters, p)]

\* p.then: the reaction waits for p, or is queued when p is settled already
PromiseThen(m, p, kind, target) ==
    IF m.promises[p].state = "pending"
    THEN [m EXCEPT !.promises[p].waiters = Append(@, [kind |-> kind, target |-> target])]
    ELSE [m EXCEPT !.queue = Append(@, [kind |-> kind, target |-> target, src |-> p])]

\* promise p is resolved with promise q: a job will call q.then
ResolveWith(m, p, q) ==
    [m EXCEPT !.queue = Append(@, [kind |-> "thenable", target |-> p, src |-> q])]

\* an async function is called: its activation and the promise it returns
NewCo(m, fn, call, doc, meta, ref, sch) ==
    [m EXCEPT !.promises = Append(@, NewPromise),
              !.cos = Append(@, [fn |-> fn, pc |-> "run", call |-> call,
                                 promise |-> Len(m.promises) + 1,
                                 doc |-> doc, meta |-> meta, ref |-> ref, sch |-> sch])]

\* activation co awaits the promise m.ret and will resume at pc; its caller
\* gets co's promise
Await(m, co, pc) ==
    [PromiseThen(m, m.ret, "resume", co) EXCEPT !.cos[co].pc = pc,
                                                !.ret = m.cos[co].promise]

\* activation co returns val
Return(m, co, val) ==
    [SettlePromise(m, m.cos[co].promise, "fulfilled", val, "")
        EXCEPT !.cos[co].pc = "done", !.ret = m.cos[co].promise]

\* activation co throws err
ThrowCo(m, co, err) ==
    [SettlePromise(m, m.cos[co].promise, "rejected", NoVal, err)
        EXCEPT !.cos[co].pc = "done", !.ret = m.cos[co].promise]

\* activation co returns the promise m.ret
ReturnPromise(m, co) ==
    [ResolveWith(m, m.cos[co].promise, m.ret)
        EXCEPT !.cos[co].pc = "done", !.ret = m.cos[co].promise]

\* the schema {$ref}
RefDoc(ref) == Doc(<<>>, <<>>, ref, "", 0)

\* the loadSchema call whose promise is p
LoadOf(m, p) == CHOOSE i \in 1..Len(m.loads) : m.loads[i].promise = p

\* opts.loadSchema(ref), called on behalf of compileAsync call number call:
\* a new promise, pending or settled already (as the promise of an async
\* function that returns or throws without awaiting); started is the number
\* of compileAsync calls made when the promise settled
loadSchema(m, call, ref) ==
    LET doc == IF ref = <<"m">> THEN m.returns.m ELSE m.returns.a
        promise == IF m.returns.state = "fulfilled"
                   THEN [NewPromise EXCEPT !.state = "fulfilled", !.val = DocVal(doc)]
                   ELSE IF m.returns.state = "rejected"
                   THEN [NewPromise EXCEPT !.state = "rejected", !.err = "load failed"]
                   ELSE NewPromise
    IN  [m EXCEPT !.promises = Append(@, promise),
                  !.loads = Append(@, [ref |-> ref, promise |-> Len(m.promises) + 1,
                                       call |-> call,
                                       started |-> IF m.returns.state = "pending" THEN 0
                                                   ELSE Len(m.calls)]),
                  !.ret = Len(m.promises) + 1]

\* a _loadSchema that deletes this._loading[ref] only after a fulfilled load
DeleteLoadingFulfilled(m, ref, settled) ==
    IF settled = "rejected" THEN m ELSE [m EXCEPT !.loading = Del(@, ref)]

\* finally { delete this._loading[ref] }: settled is the state of the
\* promise the await waited for
DeleteLoading(m, ref, settled) == [m EXCEPT !.loading = Del(@, ref)]

\* a _loadSchema that does not store the promise
ForgetLoading(m, ref) == m

\* this._loading[ref] = the promise loadSchema returned
SetLoading(m, ref) == [m EXCEPT !.loading = Put(@, ref, m.ret)]

\* a _loadSchema that does not look at this._loading
_loadSchemaNoCheck(m, call, ref) ==
    Await(SetLoading(loadSchema(NewCo(m, "_loadSchema", call, NoDoc, FALSE, ref, 0), call, ref),
                     ref),
          Len(m.cos) + 1, "S1")

\* _loadSchema(ref) up to its await
_loadSchema(m, call, ref) ==
    IF Has(m.loading, ref)
    THEN ReturnPromise([NewCo(m, "_loadSchema", call, NoDoc, FALSE, ref, 0)
                           EXCEPT !.ret = m.loading[ref]],
                       Len(m.cos) + 1)
    ELSE Await(SetLoading(loadSchema(NewCo(m, "_loadSchema", call, NoDoc, FALSE, ref, 0),
                                     call, ref),
                          ref),
               Len(m.cos) + 1, "S1")

\* the record of a _loadSchema(ref) call that took m0 to m1: whether
\* this._loading held ref, whether loadSchema was called, and the loadSchema
\* call whose promise it waits for
LogRequest(m0, m1, call, ref) ==
    [m1 EXCEPT !.reqs =
        Append(@, [call |-> call, ref |-> ref,
                   entry |-> Has(m0.loading, ref),
                   invoked |-> Len(m1.loads) > Len(m0.loads),
                   load |-> IF Len(m1.loads) > Len(m0.loads) THEN Len(m1.loads)
                            ELSE IF Has(m0.loading, ref) THEN LoadOf(m0, m0.loading[ref])
                            ELSE 0])]

\* loadMissingSchema(ref) up to its first await
loadMissingSchema(m, call, ref) ==
    Await(LogRequest(m, _loadSchema(NewCo(m, "loadMissingSchema", call, NoDoc, FALSE, ref, 0),
                                    call, ref),
                     call, ref),
          Len(m.cos) + 1, "L1")

\* checkLoaded: TRUE when it throws
checkLoaded(st, ref) == Has(st.refs, ref)

\* compileAsync call number call has caught a MissingRefError for ref; when
\* ref is registered at that moment, the record keeps where, and how many
\* loadSchema calls had been made
Missed(m, call, ref) ==
    [m EXCEPT !.calls[call].missed = @ \cup {ref},
              !.calls[call].unresolved =
                  IF Has(m.st.refs, ref) \/ Has(m.st.schemas, ref)
                  THEN @ \cup {[ref |-> ref, inRefs |-> Has(m.st.refs, ref),
                                 loads |-> Len(m.loads)]}
                  ELSE @]

RECURSIVE runCompileAsync(_, _, _, _)

\* _compileAsync once this._compileSchemaEnv(sch) has ended with r
_compileAsyncCompiled(m, co, call, r) ==
    IF r.err = "" THEN Return(WithSt(m, r.st), co, FnVal(r.ret))
    ELSE IF r.err # "MissingRefError" THEN ThrowCo(WithSt(m, r.st), co, r.err)
    ELSE IF checkLoaded(r.st, r.missing)
    THEN ThrowCo(Missed(WithSt(m, r.st), call, r.missing), co,
                 "is loaded but cannot be resolved")
    ELSE Await(loadMissingSchema(Missed(WithSt(m, r.st), call, r.missing), call, r.missing),
               co, "C1")

\* _compileAsync(sch) up to its await
_compileAsync(m, call, sch) ==
    _compileAsyncCompiled(NewCo(m, "_compileAsync", call, NoDoc, FALSE, <<>>, sch),
                          Len(m.cos) + 1, call, _compileSchemaEnv(m.st, sch))

\* loadMetaSchema once this.getSchema($ref) has ended with g
loadMetaSchemaFound(m, co, call, ref, g) ==
    IF g.err # "" THEN ThrowCo(WithSt(m, g.st), co, g.err)
    ELSE IF g.ret # 0 THEN Return(WithSt(m, g.st), co, NoVal)
    ELSE Await(runCompileAsync(WithSt(m, g.st), call, RefDoc(ref), TRUE), co, "M1")

\* loadMetaSchema($ref) up to its await
loadMetaSchema(m, call, ref) ==
    IF ref = <<>>
    THEN Return(NewCo(m, "loadMetaSchema", call, NoDoc, FALSE, ref, 0), Len(m.cos) + 1, NoVal)
    ELSE loadMetaSchemaFound(NewCo(m, "loadMetaSchema", call, NoDoc, FALSE, ref, 0),
                             Len(m.cos) + 1, call, ref, getSchema(m.st, ref))

\* runCompileAsync(_schema, _meta) up to its await
runCompileAsync(m, call, schema, meta) ==
    Await(loadMetaSchema(NewCo(m, "runCompileAsync", call, schema, meta, <<>>, 0),
                         call, schema.meta),
          Len(m.cos) + 1, "R1")

\* runCompileAsync once this._addSchema(_schema, _meta) has ended with a
runCompileAsyncAdded(m, co, call, a) ==
    IF a.err # "" THEN ThrowCo(WithSt(m, a.st), co, a.err)
    ELSE IF a.st.envs[a.ret].validate # 0
    THEN Return(WithSt(m, a.st), co, FnVal(a.st.envs[a.ret].validate))
    ELSE ReturnPromise(_compileAsync(WithSt(m, a.st), call, a.ret), co)

\* loadMissingSchema once this.addSchema(_schema, ref, meta) has ended with r
loadMissingSchemaAdded(m, co, r) ==
    IF r.err # "" THEN ThrowCo(WithSt(m, r.st), co, r.err)
    ELSE Return(WithSt(m, r.st), co, NoVal)

\* activation co resumes after its await with the outcome of promise p
Resume(m, co, p) ==
    LET c == m.cos[co]
        src == m.promises[p]
    IN  IF c.pc = "S1"
        THEN \* _loadSchema: the await returns or throws, then the finally
             IF src.state = "rejected"
             THEN ThrowCo(DeleteLoading(m, c.ref, src.state), co, src.err)
             ELSE Return(DeleteLoading(m, c.ref, src.state), co, src.val)
        ELSE IF src.state = "rejected" THEN ThrowCo(m, co, src.err)
        ELSE IF c.pc = "R1"
        THEN runCompileAsyncAdded(m, co, c.call, _addSchema(m.st, c.doc, c.meta, TRUE, TRUE))
        ELSE IF c.pc = "M1" THEN Return(m, co, NoVal)
        ELSE IF c.pc = "C1" THEN ReturnPromise(_compileAsync(m, c.call, c.sch), co)
        ELSE IF c.pc = "L1"
        THEN IF ~Has(m.st.refs, c.ref)
             THEN Await(loadMetaSchema([m EXCEPT !.cos[co].doc = src.val.doc],
                                       c.call, src.val.doc.meta),
                        co, "L2")
             ELSE Return(m, co, NoVal)
        ELSE \* L2: the meta-schema of the loaded schema is there
             IF ~Has(m.st.refs, c.ref)
             THEN loadMissingSchemaAdded(m, co,
                      addSchema(m.st, c.doc, c.ref, m.calls[c.call].meta, TRUE))
             ELSE Return(m, co, NoVal)

-----------------------------------------------------------------------------
(* The compileAsync specification: compileAsync calls made at any moment,  *)
(* the microtasks they queue, run first in first out, and the loader,      *)
(* whose promise is settled when loadSchema returns it, or settles between *)
(* two microtasks or once the queue is empty.                              *)

\* {$schema: "m", $ref: "a#"}
DocRefM == Doc(<<>>, <<"m">>, <<"a", "#">>, "s", 0)

\* the meta-schema the loader has for "m"
DocM == Doc(<<"m">>, <<>>, <<>>, "meta", 0)

\* a meta-schema whose $schema is its own $id
DocMSelf == Doc(<<"m">>, <<"m">>, <<>>, "meta", 0)

\* {$ref: "a#/x"}
DocRefX == Doc(<<>>, <<>>, <<"a", "#", "/x">>, "rx", 0)

\* schemas passed to compileAsync
AsyncDocs == {DocRef, DocRefM, DocRefX}

\* the schemas among them whose $ref resolves once "a" is loaded
AsyncRefDocs == {DocRef, DocRefM}

\* the meta argument of compileAsync
AsyncMetas == {FALSE}

\* whether loadMetaSchema(schema.$schema) would return without compiling
\* anything asynchronously
MetaReady(schema) ==
    schema.meta = <<>>
        \/ \E g \in {getSchema(State, schema.meta)} : g.err = "" /\ g.ret # 0

\* the documents the loader can deliver for a ref
LoaderDocs(ref) == IF ref = <<"m">> THEN loader.m ELSE loader.a

\* a loader that has a meta-schema for "m" and, for "a", a schema with the
\* $id "a#" and one without $id
PlainLoader == [m |-> {DocM}, a |-> {DocA, DocP}]

\* a loader that has one schema for each ref
SingleLoader == [m |-> {DocM}, a |-> {DocA}]

\* a loader whose meta-schema for "m" names itself
SelfMetaLoader == [m |-> {DocMSelf}, a |-> {DocA}]

\* the loader returns a promise that is settled already: fulfilled with a
\* schema it has for the ref, or rejected
SettledChoices ==
    {LoaderReturns(state, m, a) :
        state \in {"fulfilled", "rejected"}, m \in loader.m, a \in loader.a}

InitMachine ==
    /\ promises = <<>>
    /\ cos = <<>>
    /\ queue = <<>>
    /\ _loading = EmptyMap
    /\ loads = <<>>
    /\ calls = <<>>
    /\ reqs = <<>>

InitAsync == InitMachine /\ loader = PlainLoader

\* the step leaves machine m behind
CommitAsync(m) ==
    /\ Len(m.loads) <= MaxLoads
    /\ schemas' = m.st.schemas
    /\ refs' = m.st.refs
    /\ cache' = m.st.cache
    /\ envs' = m.st.envs
    /\ nfn' = m.st.nfn
    /\ errors' = m.st.errors
    /\ defaultMeta' = m.st.defaultMeta
    /\ opts' = m.st.opts
    /\ promises' = m.promises
    /\ cos' = m.cos
    /\ queue' = m.queue
    /\ _loading' = m.loading
    /\ loads' = m.loads
    /\ calls' = m.calls
    /\ reqs' = m.reqs
    /\ UNCHANGED <<nops, last, compiled, ruleVars, pureVars, loader>>

\* compileAsync(schema, meta) with opts.loadSchema a function: runs up to
\* the first await of runCompileAsync and returns its promise
CompileAsyncOf(docs) ==
    \E schema \in docs, meta \in AsyncMetas :
        /\ Len(calls) < MaxCalls
        /\ \E m \in {runCompileAsync(
                        [Machine EXCEPT !.calls = Append(@, [schema |-> schema, meta |-> meta,
                                                             promise |-> 0, missed |-> {},
                                                             unresolved |-> {},
                                                             direct |-> MetaReady(schema)])],
                        Len(calls) + 1, schema, meta)} :
              CommitAsync([m EXCEPT !.calls[Len(calls) + 1].promise = m.ret])

CompileAsync == CompileAsyncOf(AsyncDocs)

CompileAsyncRefs == CompileAsyncOf(AsyncRefDocs)

\* the microtask at the head of the queue resumes an activation.  When the
\* activation calls opts.loadSchema, the promise it gets is pending (m) or
\* settled already.  (compileAsync itself returns at the first await of
\* runCompileAsync, before any compilation.)
ResumeActivation ==
    /\ queue # <<>>
    /\ Head(queue).kind = "resume"
    /\ \E m \in {Resume([Machine EXCEPT !.queue = Tail(queue)],
                          Head(queue).target, Head(queue).src)} :
          \/ CommitAsync(m)
          \/ /\ Len(m.loads) > Len(loads)
             /\ \E returns \in SettledChoices :
                   CommitAsync(Resume([Machine EXCEPT !.queue = Tail(queue),
                                                      !.returns = returns],
                                      Head(queue).target, Head(queue).src))

\* the microtask at the head of the queue settles a promise that was
\* resolved with another promise, now settled
AdoptPromise ==
    /\ queue # <<>>
    /\ Head(queue).kind = "adopt"
    /\ CommitAsync(SettlePromise([Machine EXCEPT !.queue = Tail(queue)], Head(queue).target,
                                 promises[Head(queue).src].state,
                                 promises[Head(queue).src].val,
                                 promises[Head(queue).src].err))

\* the microtask at the head of the queue calls then on the promise another
\* promise was resolved with
ResolveThenable ==
    /\ queue # <<>>
    /\ Head(queue).kind = "thenable"
    /\ CommitAsync(PromiseThen([Machine EXCEPT !.queue = Tail(queue)], Head(queue).src,
                               "adopt", Head(queue).target))

\* the loader fulfils the promise of a loadSchema call that it returned
\* pending: between two microtasks or in a later task
LoadFulfilled ==
    \E i \in 1..Len(loads) :
        /\ promises[loads[i].promise].state = "pending"
        /\ \E doc \in LoaderDocs(loads[i].ref) :
              CommitAsync(SettlePromise([Machine EXCEPT !.loads[i].started = Len(calls)],
                                        loads[i].promise, "fulfilled", DocVal(doc), ""))

\* the loader rejects the promise of a loadSchema call that it returned
\* pending: between two microtasks or in a later task
LoadRejected ==
    \E i \in 1..Len(loads) :
        /\ promises[loads[i].promise].state = "pending"
        /\ CommitAsync(SettlePromise([Machine EXCEPT !.loads[i].started = Len(calls)],
                                     loads[i].promise, "rejected", NoVal, "load failed"))

-----------------------------------------------------------------------------
(* errorsText.  A string is the sequence of its pieces, "" is <<>>. *)

Null == [t |-> "null", v |-> <<>>]

UndefinedValue == [t |-> "undefined", v |-> <<>>]

Array(v) == [t |-> "array", v |-> v]

\* a string, as the sequence of its pieces
Text(pieces) == [t |-> "string", v |-> pieces]

\* errors.map((e) => `${dataVar}${e.dataPath} ${e.message}`)
ErrorTexts(errs, dataVar) ==
    [i \in 1..Len(errs) |-> dataVar \o errs[i].dataPath \o <<" ">> \o errs[i].message]

\* msgs.reduce((text, msg) => text + msg + separator), no initial value: the
\* accumulator starts as msgs[0] and the callback runs from msgs[1] on;
\* n is the number of entries consumed
RECURSIVE Reduce(_, _, _)
Reduce(msgs, separator, n) ==
    IF n = 1 THEN msgs[1]
    ELSE Reduce(msgs, separator, n - 1) \o msgs[n] \o separator

\* a parameter with a default value: the default stands in for undefined
\* (and for nothing else: null is passed on)
DefaultParameter(arg, default) == IF arg.t = "undefined" THEN default ELSE arg

\* errorsText(errors = this.errors, {separator = ", ", dataVar = "data"} = {})
\* called on an instance whose errors field is thisErrors
errorsText(thisErrors, errorsArg, separatorArg, dataVarArg) ==
    LET errs == DefaultParameter(errorsArg, thisErrors)
        separator == DefaultParameter(separatorArg, Text(<<", ">>)).v
        dataVar == DefaultParameter(dataVarArg, Text(<<"data">>)).v
    IN  IF errs.t # "array" \/ Len(errs.v) = 0 THEN <<"No errors">>
        ELSE Reduce(ErrorTexts(errs.v, dataVar), separator, Len(errs.v))

ErrorObjects ==
    {[dataPath |-> p, message |-> m] :
        p \in {<<>>, <<".x">>}, m \in {<<"should be number">>, <<"should be string">>}}

ErrorLists == UNION {[1..n -> ErrorObjects] : n \in 0..MaxErrors}

\* values of this.errors and of the errors argument
ErrorValues == {Null, UndefinedValue} \cup {Array(l) : l \in ErrorLists}

\* the separator and dataVar options, undefined when the caller gives none
Separators == {UndefinedValue, Text(<<", ">>), Text(<<"\n">>)}

DataVars == {UndefinedValue, Text(<<"data">>)}

NoApplied == [fn |-> "", args |-> <<>>, done |-> FALSE, out |-> <<>>]

Applied(fn, args) == [fn |-> fn, args |-> args, done |-> FALSE, out |-> <<>>]

InitPure == applied = NoApplied

\* an instance whose errors field holds any list of errors, and a call of
\* errorsText on it
InitErrorsText ==
    /\ \E thisErrors \in ErrorValues : InitInstance(thisErrors)
    /\ InitRules /\ InitAsync
    /\ applied \in {Applied("errorsText", <<errs, separator, dataVar>>) :
                    errs \in ErrorValues, separator \in Separators, dataVar \in DataVars}

\* the call applied.fn(applied.args) returns out
Apply(out) ==
    /\ ~applied.done
    /\ applied' = [applied EXCEPT !.done = TRUE, !.out = out]
    /\ UNCHANGED <<regVars, ruleVars, asyncVars>>

ErrorsText ==
    /\ applied.fn = "errorsText"
    /\ Apply(errorsText(errors, applied.args[1], applied.args[2], applied.args[3]))

-----------------------------------------------------------------------------
(* The enum validator.  An object is the sequence of its <<key, value>>    *)
(* pairs in the order the object lists them.                               *)

Num(n) == [t |-> "number", v |-> n]

Str(x) == [t |-> "string", v |-> x]

Obj(pairs) == [t |-> "object", v |-> pairs]

\* Object.keys(o).sort() for the keys used here
SortedKeys == <<"a", "b">>

HasKey(o, k) == \E i \in 1..Len(o.v) : o.v[i][1] = k

Get(o, k) == o.v[CHOOSE i \in 1..Len(o.v) : o.v[i][1] = k][2]

\* "" + n for the numbers used here
DigitTexts == <<"0", "1", "2">>

\* the pieces of the text of a number, a string or null
ScalarText(x) ==
    IF x.t = "number" THEN <<DigitTexts[x.v + 1]>>
    ELSE IF x.t = "string" THEN <<"\"", x.v, "\"">>
    ELSE <<x.t>>

\* the members "key":value of the first n sorted keys of o: a property whose
\* value is undefined is left out, the others are separated by commas
RECURSIVE Members(_, _)
Members(o, n) ==
    IF n = 0 THEN <<>>
    ELSE LET k == SortedKeys[n]
             before == Members(o, n - 1)
         IN  IF ~HasKey(o, k) \/ Get(o, k).t = "undefined" THEN before
             ELSE (IF before = <<>> THEN <<>> ELSE before \o <<",">>)
                      \o <<"\"", k, "\"", ":">> \o ScalarText(Get(o, k))

\* stableStringify: JSON text with the keys of objects sorted; undefined for undefined
stableStringify(x) ==
    IF x.t = "object" THEN <<"{">> \o Members(x, Len(SortedKeys)) \o <<"}">>
    ELSE ScalarText(x)

\* $itemsHash: the keys set by it.schema.forEach, written into the validator
\* by JSON.stringify($itemsHash)
itemsHash(schema) == {stableStringify(schema[i]) : i \in 1..Len(schema)}

\* the validator the template generates for the enum members in schema:
\* valid || false
enumValidator(schema, data) == stableStringify(data) \in itemsHash(schema)

PropertyValues == {Num(1), Num(2), UndefinedValue}

ObjectValues ==
    {Obj(<<>>)}
        \cup {Obj(<<<<k, v>>>>) : k \in {"a", "b"}, v \in PropertyValues}
        \cup {Obj(<<<<k[1], v>>, <<k[2], w>>>>) :
                k \in {<<"a", "b">>, <<"b", "a">>}, v \in PropertyValues, w \in PropertyValues}

DataValues == ObjectValues \cup {Num(1), Num(2), Str("1"), Null}

EnumSchemas ==
    {<<Obj(<<<<"a", Num(1)>>>>), Obj(<<<<"b", Num(2)>>>>)>>,
     <<Obj(<<<<"b", Num(2)>>, <<"a", Num(1)>>>>)>>,
     <<Num(1), Null>>,
     <<Str("1"), Obj(<<>>)>>}

InitEnum ==
    /\ InitRegistry /\ InitRules /\ InitAsync
    /\ applied \in {Applied("enum", <<schema, data>>) : schema \in EnumSchemas, data \in DataValues}

Enum ==
    /\ applied.fn = "enum"
    /\ Apply(enumValidator(applied.args[1], applied.args[2]))

-----------------------------------------------------------------------------
(* nullable: schemas {type, nullable} are compiled and their validators    *)
(* called.                                                                 *)

\* a compile that ignores nullable
compileValidateNoNullable(st, schema, data) ==
    LET r == compile(st, TypeDoc([schema EXCEPT !.nullable = "undefined"]), FALSE)
    IN  IF r.err # "" THEN [st |-> r.st, err |-> r.err, valid |-> FALSE]
        ELSE [st |-> r.st, err |-> "", valid |-> RunValidate(r.st, r.ret, data)]

\* const validate = ajv.compile(schema); validate(data): the instance
\* compile leaves, the error it threw and the result of validate, which
\* leaves its errors in validate.errors
compileValidate(st, schema, data) ==
    LET r == compile(st, TypeDoc(schema), FALSE)
    IN  IF r.err # "" THEN [st |-> r.st, err |-> r.err, valid |-> FALSE]
        ELSE [st |-> r.st, err |-> "", valid |-> RunValidate(r.st, r.ret, data)]

TypeNames == {"number", "string", "null"}

TypeLists ==
    {l \in UNION {[1..n -> TypeNames] : n \in 1..MaxTypes} :
        \A i \in 1..Len(l), j \in 1..Len(l) : l[i] = l[j] => i = j}

TypeSchemas ==
    {TypeSchema(FALSE, <<t>>, n) : t \in TypeNames, n \in {"true", "false", "undefined"}}
        \cup {TypeSchema(TRUE, l, n) : l \in TypeLists, n \in {"true", "false", "undefined"}}

\* validate(1), validate(null), validate("1")
TestData == {Num(1), Null, Str("1")}

InitNullable ==
    /\ InitRegistry /\ InitRules /\ InitAsync
    /\ applied \in {Applied("nullable", <<schema, data>>) : schema \in TypeSchemas, data \in TestData}

Nullable ==
    /\ applied.fn = "nullable" /\ ~applied.done
    /\ \E r \in {compileValidate(State, applied.args[1], applied.args[2])} :
          /\ applied' = [applied EXCEPT !.done = TRUE,
                                        !.out = [err |-> r.err, valid |-> r.valid]]
          /\ nops' = nops + 1
          /\ schemas' = r.st.schemas
          /\ refs' = r.st.refs
          /\ cache' = r.st.cache
          /\ envs' = r.st.envs
          /\ nfn' = r.st.nfn
          /\ errors' = r.st.errors
          /\ defaultMeta' = r.st.defaultMeta
          /\ opts' = r.st.opts
          /\ UNCHANGED <<last, compiled, ruleVars, asyncVars>>

-----------------------------------------------------------------------------
(* The properties keyword.  def.code emits statements into the validator   *)
(* being generated; the validator is run on a data object.                 *)

\* a property subschema {type: "number"} or {type: "number", default: d}
PropertySchema(d) == [type |-> "number", default |-> d]

\* schemaProperties(it, schema): the declared property names, in the order
\* the schema lists them
schemaProperties(schema) == [i \in 1..Len(schema.v) |-> schema.v[i][1]]

\* hasDefault with the default declared whatever the options are
hasDefaultAlways(it, schema, prop) == Get(schema, prop).default.t # "undefined"

\* hasDefault(prop)
hasDefault(it, schema, prop) ==
    it.useDefaults /\ ~it.compositeRule /\ Get(schema, prop).default.t # "undefined"

\* a statement of the generated validator
Stmt(op, prop, then, else) == [op |-> op, prop |-> prop, then |-> then, else |-> else]

\* applyPropertySchema(prop): applySubschema(it, {keyword: "properties",
\* schemaProp: prop, dataProp: prop}, valid)
applyPropertySchema(prop) == <<Stmt("applySubschema", prop, <<>>, <<>>)>>

\* ok(valid): without allErrors the code generated from here on runs only
\* when valid holds; with allErrors it emits nothing, errors accumulate
ok(it) == IF ~it.allErrors THEN <<Stmt("ok", "", <<>>, <<>>)>> ELSE <<>>

\* the body of the loop over properties for prop
PropertyCode(it, schema, prop) ==
    (IF hasDefault(it, schema, prop)
     THEN applyPropertySchema(prop)
     ELSE <<Stmt("if", prop, applyPropertySchema(prop),
                 IF ~it.allErrors THEN <<Stmt("code", "", <<>>, <<>>)>> ELSE <<>>)>>)
        \o ok(it)

\* the loop: for (const prop of properties)
RECURSIVE ForProperties(_, _, _)
ForProperties(it, schema, properties) ==
    IF properties = <<>> THEN <<>>
    ELSE PropertyCode(it, schema, Head(properties))
             \o ForProperties(it, schema, Tail(properties))

\* def.code(cxt): the statements emitted for the keyword value schema
propertiesCode(it, schema) ==
    LET properties == schemaProperties(schema)
    IN  IF Len(properties) = 0 THEN <<>> ELSE ForProperties(it, schema, properties)

\* the defaults the validator of the parent schema assigns before its
\* keywords run: with useDefaults, outside a composite rule, a property the
\* data lacks gets the default its subschema declares
RECURSIVE assignDefaults(_, _, _, _)
assignDefaults(it, schema, properties, data) ==
    IF properties = <<>> \/ ~it.useDefaults \/ it.compositeRule THEN data
    ELSE LET prop == Head(properties)
             d == Get(schema, prop).default
         IN  assignDefaults(it, schema, Tail(properties),
                            IF d.t # "undefined" /\ ~HasKey(data, prop)
                            THEN Obj(Append(data.v, <<prop, d>>)) ELSE data)

\* what data[prop] evaluates to
PropertyValue(data, prop) == IF HasKey(data, prop) THEN Get(data, prop) ELSE UndefinedValue

\* the validator of a property subschema on a value
SubschemaValid(sub, value) == value.t = sub.type

\* the code applySubschema generates, run: valid is assigned the result of
\* the subschema on data[prop], an invalid subschema adds its error
RunSubschema(env, prop) ==
    LET result == SubschemaValid(Get(env.schema, prop), PropertyValue(env.data, prop))
    IN  [env EXCEPT !.valid = IF result THEN "true" ELSE "false",
                    !.errors = IF result THEN @ ELSE @ + 1,
                    !.applied = Append(@, prop)]

\* the generated statements run in order on env
RECURSIVE RunCode(_, _)
RunCode(stmts, env) ==
    IF stmts = <<>> THEN env
    ELSE LET s == Head(stmts)
         IN  IF s.op = "applySubschema" THEN RunCode(Tail(stmts), RunSubschema(env, s.prop))
             ELSE IF s.op = "if"
             THEN RunCode(Tail(stmts),
                          RunCode(IF HasKey(env.data, s.prop) THEN s.then ELSE s.else, env))
             ELSE IF s.op = "code" THEN RunCode(Tail(stmts), [env EXCEPT !.valid = "true"])
             ELSE IF env.valid = "true" THEN RunCode(Tail(stmts), env)
             ELSE env

\* the validator of {properties: schema} compiled under it, called on data:
\* the subschemas applied, in order, the data it leaves and its result
propertiesValidator(it, schema, data) ==
    LET env == RunCode(propertiesCode(it, schema),
                       [schema |-> schema, valid |-> "undefined", errors |-> 0, applied |-> <<>>,
                        data |-> assignDefaults(it, schema, schemaProperties(schema), data)])
    IN  [valid |-> env.errors = 0, applied |-> env.applied, data |-> env.data]

\* property names, in the order data objects list them
PropertyNames == <<"x", "y", "z">>

\* the compilation contexts: allErrors, opts.useDefaults, compositeRule
Contexts == [allErrors : BOOLEAN, useDefaults : BOOLEAN, compositeRule : BOOLEAN]

\* defaults a property subschema declares: none, a number, a string
Defaults == {UndefinedValue, Num(5), Str("5")}

\* values of the properties keyword with up to MaxProps properties
PropertiesSchemas ==
    UNION {{Obj([i \in 1..Len(names) |-> <<PropertyNames[names[i]], PropertySchema(ds[i])>>]) :
                ds \in [1..Len(names) -> Defaults]} :
           names \in {l \in UNION {[1..n -> 1..Len(PropertyNames)] : n \in 0..MaxProps} :
                         \A i \in 1..Len(l), j \in 1..Len(l) : l[i] = l[j] => i = j}}

\* data objects: each property is absent, a number or a string
DataObjects ==
    {Obj(SelectSeq([i \in 1..Len(PropertyNames) |-> <<PropertyNames[i], f[i]>>],
                   LAMBDA pair : pair[2].t # "undefined")) :
        f \in [1..Len(PropertyNames) -> {UndefinedValue, Num(1), Str("1")}]}

InitProperties ==
    /\ InitRegistry /\ InitRules /\ InitAsync
    /\ applied \in {Applied("properties", <<it, schema, data>>) :
                    it \in Contexts,
                    schema \in PropertiesSchemas,
                    data \in DataObjects}

Properties ==
    /\ applied.fn = "properties"
    /\ Apply(propertiesValidator(applied.args[1], applied.args[2], applied.args[3]))

-----------------------------------------------------------------------------
(* Specifications *)

\* the registry operations on a constructed instance
Init == InitRegistry /\ InitRules /\ InitAsync /\ InitPure

Next ==
    \/ AddSchema
    \/ AddMetaSchema
    \/ Compile
    \/ GetSchema
    \/ RemoveSchemaAll
    \/ RemoveSchemaRegExp
    \/ RemoveSchemaKey
    \/ RemoveSchemaObj

Spec == Init /\ [][Next]_vars

\* the registry operations and validate
NextValidate ==
    \/ Next
    \/ ValidateKey
    \/ ValidateObject
    \/ ValidateSchema

SpecValidate == Init /\ [][NextValidate]_vars

\* the enum validator of each schema called once on each data value
SpecEnum == InitEnum /\ [][Enum]_vars

\* each schema compiled and its validator called once on each data value
SpecNullable == InitNullable /\ [][Nullable]_vars

\* the validator of a properties keyword, compiled and called
SpecProperties == InitProperties /\ [][Properties]_vars

\* errorsText called once on each list of errors
SpecErrorsText == InitErrorsText /\ [][ErrorsText]_vars

\* the keyword operations on a constructed instance
NextKeywords ==
    \/ AddKeyword
    \/ AddKeywordName
    \/ AddVocabulary
    \/ RemoveKeyword
    \/ GetKeyword

InitKeywords == InitRegistry /\ InitRulesTables /\ InitAsync /\ InitPure

SpecKeywords == InitKeywords /\ [][NextKeywords]_vars

\* the compileAsync calls on a constructed instance
NextAsync ==
    \/ CompileAsync
    \/ ResumeActivation
    \/ AdoptPromise
    \/ ResolveThenable
    \/ LoadFulfilled
    \/ LoadRejected

SpecAsync == Init /\ [][NextAsync]_vars

\* compileAsync of schemas whose refs a loader with one schema for each ref
\* can deliver
InitAsyncRefs ==
    InitRegistry /\ InitRules /\ InitPure /\ InitMachine /\ loader = SingleLoader

NextAsyncRefs ==
    \/ CompileAsyncRefs
    \/ ResumeActivation
    \/ AdoptPromise
    \/ ResolveThenable
    \/ LoadFulfilled
    \/ LoadRejected

SpecAsyncRefs == InitAsyncRefs /\ [][NextAsyncRefs]_vars

\* compileAsync on an instance whose loader has a meta-schema that names itself
InitSelfMeta ==
    InitRegistry /\ InitRules /\ InitPure /\ InitMachine /\ loader = SelfMetaLoader

SpecAsyncSelfMeta == InitSelfMeta /\ [][NextAsync]_vars

-----------------------------------------------------------------------------
(* Claims about compileAsync *)

\* the loadSchema(ref) calls started and not yet settled
InFlight(ref) ==
    {i \in 1..Len(loads) : loads[i].ref = ref /\ promises[loads[i].promise].state = "pending"}

\* the refs loadSchema was called for
LoadedRefs == {loads[i].ref : i \in 1..Len(loads)}

\* C1: for every ref, at any moment at most one loadSchema(ref) call is in
\* flight (started and not yet settled), however many compileAsync calls
\* are running.
C1_OneInFlight == \A ref \in LoadedRefs : Cardinality(InFlight(ref)) <= 1

\* two compileAsync calls have asked for the same ref and wait for the one
\* loadSchema call in flight: the second found it in this._loading
C1_Witness ==
    \E q1, q2 \in 1..Len(reqs) :
        /\ reqs[q1].call # reqs[q2].call
        /\ reqs[q1].ref = reqs[q2].ref
        /\ reqs[q1].invoked /\ reqs[q2].entry /\ ~reqs[q2].invoked
        /\ reqs[q2].load = reqs[q1].load
        /\ InFlight(reqs[q1].ref) = {reqs[q1].load}

\* the compileAsync calls started before loadSchema call number i settled
StartedBefore(i) ==
    IF promises[loads[i].promise].state = "pending" THEN 1..Len(calls)
    ELSE 1..loads[i].started

\* the first loadSchema call for ref
FirstLoad(ref) ==
    CHOOSE i \in 1..Len(loads) :
        loads[i].ref = ref /\ \A j \in 1..Len(loads) : loads[j].ref = ref => i <= j

\* the compileAsync calls that miss ref and were started before the first
\* load of ref settled
Concurrent(ref) == {c \in StartedBefore(FirstLoad(ref)) : ref \in calls[c].missed}

\* C2 as stated: when several compileAsync calls whose schemas miss the same
\* ref are started before the first load of that ref has settled,
\* loadSchema is invoked exactly once for that ref over the whole run of
\* those calls.
C2_Original ==
    \A ref \in LoadedRefs :
        Cardinality(Concurrent(ref)) >= 2
            => Cardinality({i \in 1..Len(loads) :
                               loads[i].ref = ref /\ loads[i].call \in Concurrent(ref)}) = 1

\* the calls of Concurrent(ref) whose $schema, if any, getSchema returned
\* when the call was made: they reach ref in their first continuation
DirectCalls(ref) == {c \in Concurrent(ref) : calls[c].direct}

\* the first _loadSchema(ref) request of each call of DirectCalls(ref): the
\* one its first compile attempt makes
FirstRequests(ref) ==
    {q \in 1..Len(reqs) :
        /\ reqs[q].ref = ref /\ reqs[q].call \in DirectCalls(ref)
        /\ \A p \in 1..(q - 1) : ~(reqs[p].ref = ref /\ reqs[p].call = reqs[q].call)}

\* C2 amended: when several compileAsync calls whose schemas miss the same
\* ref, and which reach it in their first compile attempt (their $schema,
\* if any, getSchema returns when the call is made), are started before the
\* first load of that ref has settled, loadSchema is invoked at most once
\* for that ref by those attempts (by the first of them to reach the ref,
\* unless a load of it is in flight already): the others wait for the
\* promise in this._loading.  A call that reaches the ref later, after its
\* $schema was compiled or in a further compile attempt, can find
\* this._loading[ref] deleted and invoke loadSchema again.
C2_ExactlyOnce ==
    \A ref \in LoadedRefs :
        Cardinality(DirectCalls(ref)) >= 2
            => /\ Cardinality({q \in FirstRequests(ref) : reqs[q].invoked}) <= 1
               /\ \A q \in FirstRequests(ref) :
                     ~reqs[q].invoked => reqs[q].entry /\ loads[reqs[q].load].ref = ref

\* two compileAsync calls of schemas without $schema that missed the ref
\* "a", both started before its first load settled, got their validators from one
\* loadSchema call: the second call found the promise in this._loading
C2_Witness ==
    /\ <<"a">> \in LoadedRefs
    /\ DirectCalls(<<"a">>) = {1, 2}
    /\ \A c \in 1..2 : promises[calls[c].promise].state = "fulfilled"
    /\ Cardinality({i \in 1..Len(loads) : loads[i].ref = <<"a">>}) = 1
    /\ \E q \in 1..Len(reqs) : reqs[q].entry /\ ~reqs[q].invoked /\ reqs[q].call = 2

\* C11: when compilation in the compileAsync loop raises missing-ref for a
\* ref that is registered on the instance (under schemas or refs), the call
\* fails with the "loaded but cannot be resolved" error and loadSchema is
\* not called for that ref.
C11_UnresolvableReported ==
    \A c \in 1..Len(calls) :
        \A u \in calls[c].unresolved :
            /\ ~\E i \in (u.loads + 1)..Len(loads) : loads[i].ref = u.ref /\ loads[i].call = c
            /\ promises[calls[c].promise].state # "fulfilled"
            /\ promises[calls[c].promise].state = "rejected"
                  => promises[calls[c].promise].err = "is loaded but cannot be resolved"

-----------------------------------------------------------------------------
(* Claims about the registry *)

\* C3: once compile(s) has succeeded, a further compile of a schema with the
\* same serialization, with no removeSchema in between, does not throw and
\* returns the same validator function object.
C3_IdempotentCompile ==
    (last.op = "compile" /\ last.again)
        => (last.err = "" /\ last.ret = compiled[serialize(last.doc)])

\* a second compile, of a document listing its keys in another order, has
\* returned the function of the first
C3_Witness ==
    /\ last.op = "compile" /\ last.again /\ last.doc = DocA2
    /\ last.err = "" /\ last.ret # 0 /\ last.ret = compiled[serialize(DocA2)]
    /\ nfn >= 2

\* C4 as stated: for addSchema(s) followed by addSchema(s) with the same
\* serialization, the second call fails with the duplicate error only when s
\* declares an $id; without $id it does not fail and yields the SchemaEnv of
\* the first call.
C4_Original ==
    (last.op = "addSchema" /\ last.key = <<>> /\ last.prev.ok /\ last.prev.key = <<>>)
        => /\ (last.err = "already exists" => last.doc.id # <<>>)
           /\ (last.doc.id = <<>> => (last.err = "" /\ last.ret = last.prev.env))

\* C4 amended: for addSchema(s) followed by addSchema(s) with the same
\* serialization, the second call fails with the "already exists" error when
\* both calls are made without a key, whether or not s declares an $id (a
\* schema with neither takes the key ""); when the key the second call
\* registers under is still free, it does not fail and registers the
\* SchemaEnv of the first call (same identity), whether or not s has an $id.
C4_CacheDedup ==
    (last.op \in {"addSchema", "addMetaSchema"} /\ last.prev.ok)
        => /\ (last.key = <<>> /\ last.prev.key = <<>>) => last.err = "already exists"
           /\ last.fresh => (/\ last.err = ""
                             /\ last.ret = last.prev.env
                             /\ schemas[normalizeId(IF last.key # <<>> THEN last.key
                                                     ELSE last.doc.id)] = last.prev.env)

\* a schema with an $id was added a second time, under a new key, and the
\* SchemaEnv of the first call was registered again
C4_Witness ==
    /\ last.op = "addSchema" /\ last.prev.ok /\ last.fresh
    /\ last.doc.id # <<>> /\ last.key = <<"k">> /\ last.prev.key = <<>>
    /\ last.err = "" /\ schemas[<<"k">>] = last.prev.env

\* C12: after validate(schemaOrKey, data) has returned with a synchronous
\* validator v, this.errors is v.errors of that invocation; with an
\* asynchronous validator this.errors is what it was before the call.
C12_ErrorsSurfaced ==
    (last.op = "validate" /\ last.err = "")
        => IF last.async THEN errors = last.errorsBefore ELSE errors = last.verrors

\* C5: after removeSchema(k) with a string k, schemas[k] and refs[k] are
\* absent and getSchema(k) returns undefined.
C5_RegistrationSymmetry ==
    last.op = "removeSchema(string)"
        => /\ ~Has(schemas, last.key)
           /\ ~Has(refs, last.key)
           /\ \E g \in {getSchema(State, last.key)} : g.err = "" /\ g.ret = 0

\* the SchemaEnvs registered in schemas or refs
RegisteredEnvs ==
    {schemas[k] : k \in DOMAIN schemas}
        \cup {refs[k].e : k \in {x \in DOMAIN refs : refs[x].t = "env"}}

\* the schema {type: T} for the type T of schema
TypeAlone(schema) == [schema EXCEPT !.nullable = "undefined"]

ListsNull(schema) == \E i \in 1..Len(schema.names) : schema.names[i] = "null"

\* C16: compiling a schema whose type lists "null" together with
\* nullable: false throws; otherwise the validator accepts null iff nullable
\* is true or the type lists "null", and treats every other value as the
\* type alone does.
C16_Nullable ==
    (applied.fn = "nullable" /\ applied.done)
        => LET schema == applied.args[1]
               data == applied.args[2]
           IN  IF ListsNull(schema) /\ schema.nullable = "false"
               THEN applied.out.err # ""
               ELSE /\ applied.out.err = ""
                    /\ IF data.t = "null"
                       THEN applied.out.valid <=> (schema.nullable = "true" \/ ListsNull(schema))
                       ELSE applied.out.valid
                                = compileValidate(ConstructedState, TypeAlone(schema), data).valid

\* the tests of the nullable keyword: {type: "number", nullable: true}
\* accepts null and 1 and rejects "1", and {type: ["number", "null"],
\* nullable: false} does not compile
C16_Witness ==
    /\ applied.fn = "nullable" /\ applied.done
    /\ \/ /\ applied.args[1] = TypeSchema(FALSE, <<"number">>, "true")
          /\ applied.args[2].t = "null"
          /\ applied.out = [err |-> "", valid |-> TRUE]
       \/ /\ applied.args[1] = TypeSchema(TRUE, <<"number", "null">>, "false")
          /\ applied.out.err # ""

\* deep structural equality of two values: the same type and value, for
\* objects the same keys with equal values, a key whose value is undefined
\* being a key
DeepEqual(x, y) ==
    IF x.t = "object" /\ y.t = "object"
    THEN /\ \A k \in {"a", "b"} : HasKey(x, k) <=> HasKey(y, k)
         /\ \A k \in {"a", "b"} : HasKey(x, k) => Get(x, k) = Get(y, k)
    ELSE x = y

\* C15: the enum validator returns true iff the data is deeply structurally
\* equal to one of the enum members, also for objects with reordered keys
\* and objects carrying a property whose value is undefined.
C15_EnumDeepEqual ==
    (applied.fn = "enum" /\ applied.done)
        => (applied.out <=> \E i \in 1..Len(applied.args[1]) :
                                DeepEqual(applied.args[1][i], applied.args[2]))

\* the entries of msgs joined by the separator, the first n of them
RECURSIVE Joined(_, _, _)
Joined(msgs, separator, n) ==
    IF n = 1 THEN msgs[1]
    ELSE Joined(msgs, separator, n - 1) \o separator \o msgs[n]

\* C14: errorsText returns "No errors" for a null, undefined or empty list,
\* and for n >= 1 errors the n entries dataVar + dataPath + " " + message in
\* list order, with the separator between consecutive entries only; the
\* list is this.errors when no list is passed, the separator ", " and
\* dataVar "data" when the options give none.
C14_ErrorsText ==
    (applied.fn = "errorsText" /\ applied.done)
        => LET errs == IF applied.args[1].t = "undefined" THEN errors ELSE applied.args[1]
               separator == IF applied.args[2].t = "undefined" THEN <<", ">>
                            ELSE applied.args[2].v
               dataVar == IF applied.args[3].t = "undefined" THEN <<"data">>
                          ELSE applied.args[3].v
           IN  IF errs.t # "array" \/ Len(errs.v) = 0
               THEN applied.out = <<"No errors">>
               ELSE applied.out = Joined(ErrorTexts(errs.v, dataVar), separator, Len(errs.v))

\* C21 as stated: _loading[ref] is set exactly while a loadSchema(ref) call
\* is in flight.
C21_Original == \A ref \in LoadedRefs : Has(_loading, ref) <=> InFlight(ref) # {}

\* C21: _loading[ref] holds the promise of loadSchema(ref) from the call on
\* and is deleted by the microtask that resumes _loadSchema after the load
\* settled, fulfilled or rejected: while a load is in flight _loading[ref] is
\* its promise, when the microtask queue is empty _loading holds the refs
\* with a load in flight and no other, and a _loadSchema(ref) call calls
\* loadSchema(ref) iff it finds no _loading[ref].
C21_LoadingUntilResumed ==
    /\ \A ref \in LoadedRefs :
          \A i \in InFlight(ref) : Has(_loading, ref) /\ _loading[ref] = loads[i].promise
    /\ queue = <<>> => \A ref \in DOMAIN _loading : InFlight(ref) # {}
    /\ \A q \in 1..Len(reqs) : reqs[q].invoked <=> ~reqs[q].entry

\* a load was rejected, its _loading entry is gone, and a compileAsync call
\* started afterwards has called loadSchema for the same ref again
C21_Witness ==
    \E i \in 1..Len(loads), j \in 1..Len(loads) :
        /\ i < j /\ loads[i].ref = loads[j].ref
        /\ promises[loads[i].promise].state = "rejected"
        /\ queue = <<>> /\ InFlight(loads[i].ref) = {} /\ ~Has(_loading, loads[i].ref)

\* the compileAsync calls that waited for loadSchema call i
Waiters(i) == {reqs[q].call : q \in {x \in 1..Len(reqs) : reqs[x].load = i}}

\* C18: when two compileAsync calls wait on the same load of a missing ref,
\* neither call fails with the duplicate-schema error, whatever $id the
\* loaded schema declares.
C18_SharedLoadRegisteredOnce ==
    \A i \in 1..Len(loads) :
        Cardinality(Waiters(i)) >= 2
            => \A c \in Waiters(i) :
                  ~(/\ promises[calls[c].promise].state = "rejected"
                    /\ promises[calls[c].promise].err = "already exists")

\* the loadSchema(ref) calls made on behalf of compileAsync call c
LoadsOf(c, ref) == {i \in 1..Len(loads) : loads[i].call = c /\ loads[i].ref = ref}

\* C17: a compileAsync call has loadSchema called a bounded number of times
\* per ref, at most twice (a ref is loaded a second time only when the first
\* schema loaded for it left it out of refs), also when a loaded schema names
\* a meta-schema that has to be loaded and that names itself.
C17_BoundedLoads ==
    \A c \in 1..Len(calls) : \A ref \in LoadedRefs : Cardinality(LoadsOf(c, ref)) <= 2

\* C19: when addSchema(schema, key) throws, schemas, refs and the schema
\* cache hold exactly what they held before the call.
C19_FailedAddUnchanged ==
    (last.op = "addSchema" /\ last.err # "") => last.unchanged

\* C20: after addSchema(s, k) followed by removeSchema(k), a second
\* addSchema(s, k) succeeds and registers s under k, also when s declares an
\* $id different from k.
C20_RemoveUndoesAdd ==
    (last.op = "addSchema" /\ last.redo)
        => /\ last.err = ""
           /\ Has(schemas, last.key) /\ envs[schemas[last.key]].schema = last.doc

\* C13: no two distinct SchemaEnvs registered in schemas or refs have the
\* same baseId.
C13_BaseIdUnique ==
    \A e1 \in RegisteredEnvs, e2 \in RegisteredEnvs :
        envs[e1].baseId = envs[e2].baseId => e1 = e2

\* getSchema(env.baseId) === compile(env.schema), evaluated left to right
RoundTrip(e) ==
    \E g \in {getSchema(State, envs[e].baseId)} :
        \E c \in {compile(g.st, envs[e].schema, FALSE)} :
            \/ g.err = "" /\ c.err = "" /\ g.ret # 0 /\ g.ret = c.ret
            \/ g.err # "" /\ c.err = g.err

\* C6: for every registered SchemaEnv env with a non-empty baseId,
\* getSchema(env.baseId) returns the same function object as
\* compile(env.schema).
C6_RoundTrip ==
    \A e \in RegisteredEnvs : envs[e].baseId # <<>> => RoundTrip(e)

\* the options validator fn was compiled under
FnOpts(st, fn) == st.envs[EnvOfFn(st, fn)].vopts

\* C7: every validator obtained for a schema passed as a meta-schema
\* (compile(schema, true), or addMetaSchema and then getSchema of its key)
\* was compiled under options without removeAdditional, useDefaults and
\* coerceTypes.
C7_MetaIsolation ==
    /\ (last.op = "compile" /\ last.meta /\ last.err = "")
          => FnOpts(State, last.ret) \cap META_IGNORE_OPTIONS = {}
    /\ (last.op = "addMetaSchema" /\ last.err = "")
          => \A g \in {getSchema(State, IF last.key # <<>> THEN last.key ELSE last.doc.id)} :
                (g.err = "" /\ g.ret # 0)
                    => FnOpts(g.st, g.ret) \cap META_IGNORE_OPTIONS = {}

\* C8: after removeSchema() and removeSchema(RegExp), every key or ref under
\* which getSchema returned the validator of a meta-schema before the call
\* still returns that validator.
C8_BulkRemovalKeepsMeta ==
    last.op \in {"removeSchema()", "removeSchema(RegExp)"}
        => \A p \in last.metaBefore :
              \E g \in {getSchema(State, p[1])} : g.err = "" /\ g.ret = p[2]

-----------------------------------------------------------------------------
(* Claims about the keyword registry *)

\* C9: if a rule A whose definition has before: B and a rule with keyword B
\* are in the same RuleGroup, A is positioned ahead of B in the group's list.
C9_KeywordOrdering ==
    \A g \in 1..Len(RULES.rules) :
        \A i, j \in 1..Len(RULES.rules[g].rules) :
            RULES.rules[g].rules[i].definition.before = RULES.rules[g].rules[j].keyword
                => i < j

\* the keywords some RuleGroup holds a rule for
GroupKeywords ==
    UNION {{RULES.rules[g].rules[i].keyword : i \in 1..Len(RULES.rules[g].rules)} :
              g \in 1..Len(RULES.rules)}

\* C22: when addKeyword throws, RULES.keywords, RULES.all and every
\* RuleGroup's rule list are unchanged; and a definition with several types
\* and an implements list is added without error when none of its keywords
\* was defined before.
C22_AllOrNothing ==
    lastKw.op = "addKeyword"
        => /\ lastKw.err # "" => lastKw.kept
           /\ lastKw.several => lastKw.err = ""

\* the step called _compileSchemaEnv(sch) for the meta SchemaEnv e and it
\* returned: e had no validator before, and the operation returned the one e
\* has now
MetaCompiled(e) ==
    /\ last'.op \in {"compile", "getSchema"} /\ last'.err = "" /\ last'.ret # 0
    /\ envs'[e].meta /\ envs'[e].validate = last'.ret
    /\ (e > Len(envs) \/ envs[e].validate = 0)

\* C23: the validator of a meta SchemaEnv compiled by _compileSchemaEnv is
\* built while this.opts is _metaOpts, and every operation, whether it
\* returns or throws, leaves this.opts the object it was before: always the
\* options the instance was built with, never _metaOpts.
C23_OptionsRestored ==
    /\ [](opts \in OptionSets /\ opts # _metaOpts)
    /\ [][/\ opts' = opts
          /\ \A e \in 1..Len(envs') : MetaCompiled(e) => envs'[e].vopts = _metaOpts]_vars

\* compile(schema, true) has just thrown MissingRefError out of the
\* compilation of a meta SchemaEnv, which is left without validator, after
\* another meta SchemaEnv was compiled under _metaOpts; this.opts holds the
\* options _metaOpts leaves out
C23_Witness ==
    /\ last.op = "compile" /\ last.meta /\ last.err = "MissingRefError"
    /\ \E e \in 1..Len(envs) :
          envs[e].schema = last.doc /\ envs[e].meta /\ envs[e].validate = 0
    /\ \E e \in 1..Len(envs) :
          envs[e].meta /\ envs[e].validate # 0 /\ envs[e].vopts = _metaOpts
    /\ opts \cap META_IGNORE_OPTIONS # {}

\* the properties a run applied before the declared property number n, and
\* found invalid
FailedBefore(schema, out, n) ==
    {i \in 1..Len(out.applied) :
        /\ \E m \in 1..(n - 1) : schema.v[m][1] = out.applied[i]
        /\ PropertyValue(out.data, out.applied[i]).t # "number"}

\* C24: the subschema of a declared property is applied to a present
\* property, and to an absent one only when useDefaults is set, the keyword
\* is outside a composite rule and the subschema declares a default; it is
\* applied in these cases unless, without allErrors, a property declared
\* before it was found invalid; the result is valid iff every applied
\* subschema is valid, so invalid data has a property that is present, or
\* has such a default, and is invalid.
C24_Properties ==
    (applied.fn = "properties" /\ applied.done)
        => LET it == applied.args[1]
               schema == applied.args[2]
               data == applied.args[3]
               out == applied.out
               WithDefault(n) == /\ it.useDefaults /\ ~it.compositeRule
                                 /\ schema.v[n][2].default.t # "undefined"
               Due(n) == WithDefault(n) \/ HasKey(data, schema.v[n][1])
               Ran(n) == \E i \in 1..Len(out.applied) : out.applied[i] = schema.v[n][1]
               Valid(prop) == PropertyValue(out.data, prop).t = "number"
           IN  /\ \A n \in 1..Len(schema.v) :
                     /\ Ran(n) => Due(n)
                     /\ (Due(n) /\ ~Ran(n))
                            => (~it.allErrors /\ FailedBefore(schema, out, n) # {})
               /\ \A i \in 1..Len(out.applied) : HasKey(schema, out.applied[i])
               /\ out.valid <=> \A i \in 1..Len(out.applied) : Valid(out.applied[i])
               /\ ~out.valid => \E n \in 1..Len(schema.v) : Due(n) /\ ~Valid(schema.v[n][1])

\* with allErrors and useDefaults, outside a composite rule: x, declared
\* without default and absent, was not applied; y, absent and declared with
\* the default 5, was applied to the assigned default; the data is valid
C24_Witness ==
    /\ applied.fn = "properties" /\ applied.done
    /\ applied.args[1] = [allErrors |-> TRUE, useDefaults |-> TRUE, compositeRule |-> FALSE]
    /\ applied.args[2] = Obj(<<<<"x", PropertySchema(UndefinedValue)>>,
                               <<"y", PropertySchema(Num(5))>>>>)
    /\ applied.args[3] = Obj(<<>>)
    /\ applied.out = [valid |-> TRUE, applied |-> <<"y">>, data |-> Obj(<<<<"y", Num(5)>>>>)]

\* the keywords RULES.all holds a rule for
RuleKeywords == {k \in DOMAIN RULES.all : IsRule(RULES.all[k])}

\* after removeKeyword(k) none of the three indices contains k
C10_RemovedEverywhere ==
    lastKw.op = "removeKeyword"
        => LET k == lastKw.keyword[1]
           IN  k \notin RULES.keywords /\ ~Has(RULES.all, k) /\ k \notin GroupKeywords

\* C10: for every keyword k the three indices agree: RULES.keywords[k] is
\* set iff RULES.all[k] holds a rule iff some RuleGroup's rule list contains
\* a rule with keyword k; in particular after removeKeyword(k) none of the
\* three contains k.
C10_IndicesInSync ==
    /\ RULES.keywords = RuleKeywords
    /\ RuleKeywords = GroupKeywords
    /\ C10_RemovedEverywhere

====
